---- MODULE Spec2Model ----
(***************************************************************************)
(* The element refinement algebra of t8code: the triangle kernel           *)
(* (t8_dtri_bits.c, compiled without T8_DTRI_TO_DTET) and the default      *)
(* triangle scheme that wraps it.                                          *)
(*                                                                         *)
(* An element is a record [level, type, x, y].  The padding field n of     *)
(* t8_dtri_t takes no part in any operation modelled here and is left out. *)
(* Coordinates are int32 values; every value that occurs stays below 2^23  *)
(* in magnitude, so they are modelled as integers.  Linear ids are         *)
(* uint64_t values and keep their width: a uint64 is the tuple of its 64    *)
(* bits.                                                                   *)
(***************************************************************************)
EXTENDS Integers, Sequences, FiniteSets, TLC

(***************************************************************************)
(* Bounds of the model                                                     *)
(***************************************************************************)
\* deepest level to which the driver refines the element under inspection
MaxDepth == 3
\* deepest level to which the two-element driver refines its elements
MaxDepthPair == 2
\* largest linear id from which the driver builds an element of a deepest level
MaxDeepId == 5
\* deepest level at which the prism driver builds a prism
MaxPrismLevel == 3
\* deepest level at which the quad driver builds a quad
MaxQuadLevel == 2
\* deepest level at which the tetrahedron driver builds a tetrahedron
MaxTetLevel == 2

(***************************************************************************)
(* Constants of the triangle class                                         *)
(***************************************************************************)
T8_DTRI_MAXLEVEL == 21
T8_DTRI_DIM == 2
T8_DTRI_CHILDREN == 4
T8_DTRI_FACES == 3
U64Width == 64

T8_DTRI_ROOT_LEN == 2 ^ T8_DTRI_MAXLEVEL

T8_DTRI_LEN(l) == 2 ^ (T8_DTRI_MAXLEVEL - l)

(***************************************************************************)
(* Class tables of the Bey refinement (2D).  C arrays are 0-based, tuples  *)
(* are 1-based: table[a][b] in C is Tab(table, a, b).                      *)
(***************************************************************************)
Tab(table, a, b) == table[a + 1][b + 1]

t8_dtri_cid_type_to_parenttype == << <<0, 1>>, <<0, 0>>, <<1, 1>>, <<0, 1>> >>

t8_dtri_type_of_child == << <<0, 0, 0, 1>>, <<1, 1, 1, 0>> >>

t8_dtri_index_to_bey_number == << <<0, 1, 3, 2>>, <<0, 3, 1, 2>> >>

t8_dtri_beyid_to_vertex == <<0, 1, 2, 1>>

t8_dtri_type_cid_to_Iloc == << <<0, 1, 1, 3>>, <<0, 2, 2, 3>> >>

t8_dtri_parenttype_Iloc_to_type == << <<0, 0, 1, 0>>, <<1, 0, 1, 1>> >>

t8_dtri_parenttype_Iloc_to_cid == << <<0, 1, 1, 3>>, <<0, 2, 2, 3>> >>

(***************************************************************************)
(* Bit operations on non-negative int32 coordinates                        *)
(***************************************************************************)
\* (x & h) != 0 for a power of two h
BitTest(x, h) == ((x \div h) % 2) = 1

\* x & ~h for a power of two h
BitClear(x, h) == IF BitTest(x, h) THEN x - h ELSE x

\* x | h for a power of two h
BitSet(x, h) == IF BitTest(x, h) THEN x ELSE x + h

RECURSIVE BitXor(_, _)
BitXor(a, b) ==
  IF a = 0 /\ b = 0 THEN 0
  ELSE (((a % 2) + (b % 2)) % 2) + 2 * BitXor(a \div 2, b \div 2)

RECURSIVE BitOr(_, _)
BitOr(a, b) ==
  IF a = 0 /\ b = 0 THEN 0
  ELSE (IF a % 2 = 1 \/ b % 2 = 1 THEN 1 ELSE 0) + 2 * BitOr(a \div 2, b \div 2)

\* floor(log2(x)), and -1 for x = 0
RECURSIVE SC_LOG2_32(_)
SC_LOG2_32(x) == IF x = 0 THEN -1 ELSE 1 + SC_LOG2_32(x \div 2)

SC_MIN(a, b) == IF a < b THEN a ELSE b

SC_MAX(a, b) == IF a > b THEN a ELSE b

(***************************************************************************)
(* uint64_t arithmetic, bit by bit: a uint64 is the tuple of its 64 bits,  *)
(* least significant first (bit i of the C value is a[i + 1]).             *)
(***************************************************************************)
U64Bits == 1 .. U64Width

\* the uint64 of a natural number below 2^31
U64(n) == [i \in U64Bits |-> IF i <= 31 THEN (n \div (2 ^ (i - 1))) % 2 ELSE 0]

\* a | b
U64Or(a, b) == [i \in U64Bits |-> IF a[i] = 1 \/ b[i] = 1 THEN 1 ELSE 0]

\* a << k, 0 <= k < 64
U64Shl(a, k) == [i \in U64Bits |-> IF i - k >= 1 THEN a[i - k] ELSE 0]

\* a >> k, 0 <= k < 64
U64Shr(a, k) == [i \in U64Bits |-> IF i + k <= U64Width THEN a[i + k] ELSE 0]

\* a + 1 (mod 2^64)
U64Inc(a) ==
  [i \in U64Bits |-> IF \A j \in 1 .. (i - 1) : a[j] = 1 THEN 1 - a[i] ELSE a[i]]

\* a - 1 (mod 2^64)
U64Dec(a) ==
  [i \in U64Bits |-> IF \A j \in 1 .. (i - 1) : a[j] = 0 THEN 1 - a[i] ELSE a[i]]

\* a < b
U64Less(a, b) ==
  \E i \in U64Bits : /\ a[i] < b[i]
                     /\ \A j \in (i + 1) .. U64Width : a[j] = b[j]

\* a <= b
U64Leq(a, b) == a = b \/ U64Less(a, b)

\* (int) (a & 3)
U64Low2(a) == a[1] + 2 * a[2]

\* the number made of the n bits of a from position from on
RECURSIVE BitsToNat(_, _, _)
BitsToNat(a, from, n) ==
  IF n = 0 THEN 0 ELSE a[from] + 2 * BitsToNat(a, from + 1, n - 1)

\* a uint64 as the three numbers <<bits 60..63, bits 30..59, bits 0..29>>: the
\* form in which the driver keeps a uint64 in its register
U64Pack(a) == <<BitsToNat(a, 61, 4), BitsToNat(a, 31, 30), BitsToNat(a, 1, 30)>>

U64Unpack(p) ==
  [i \in U64Bits |->
     IF i <= 30 THEN (p[3] \div (2 ^ (i - 1))) % 2
     ELSE IF i <= 60 THEN (p[2] \div (2 ^ (i - 31))) % 2
     ELSE (p[1] \div (2 ^ (i - 61))) % 2]

(***************************************************************************)
(* The triangle kernel                                                     *)
(***************************************************************************)
Elem(level, type, x, y) == [level |-> level, type |-> type, x |-> x, y |-> y]

compute_cubeid(t, level) ==
  LET h == T8_DTRI_LEN(level)
  IN  IF level = 0 THEN 0
      ELSE (IF BitTest(t.x, h) THEN 1 ELSE 0) + (IF BitTest(t.y, h) THEN 2 ELSE 0)

\* the loop of compute_type: for (i = tlevel; i < level; i++)
RECURSIVE compute_type_loop(_, _, _, _)
compute_type_loop(t, i, level, type) ==
  IF i < level
    THEN compute_type_loop(t, i + 1, level,
           Tab(t8_dtri_cid_type_to_parenttype, compute_cubeid(t, i), type))
    ELSE type

compute_type(t, level) ==
  IF level = t.level THEN t.type
  ELSE IF level = 0 THEN 0
  ELSE compute_type_loop(t, t.level, level, t.type)

t8_dtri_copy(t) == t

\* mutant of t8_dtri_parent: the parent's type is copied from the child
t8_dtri_parent_keeps_type(t) ==
  LET h == T8_DTRI_LEN(t.level)
  IN  Elem(t.level - 1, t.type, BitClear(t.x, h), BitClear(t.y, h))

t8_dtri_parent(t) ==
  LET h == T8_DTRI_LEN(t.level)
      cid == compute_cubeid(t, t.level)
  IN  Elem(t.level - 1,
           Tab(t8_dtri_cid_type_to_parenttype, cid, t.type),
           BitClear(t.x, h),
           BitClear(t.y, h))

\* mutant of t8_dtri_compute_coords: vertex 1 lies along the axis 1 - type
t8_dtri_compute_coords_other_axis(t, vertex) ==
  LET ei == 1 - t.type
      h == T8_DTRI_LEN(t.level)
      c0 == <<t.x, t.y>>
      c1 == [c0 EXCEPT ![ei + 1] = @ + h]
      c2 == [c1 EXCEPT ![(1 - ei) + 1] = @ + h]
  IN  IF vertex = 0 THEN c0
      ELSE IF vertex = 2 THEN c2
      ELSE c1

\* coordinates[0..1] of the given vertex, as the pair <<c0, c1>>
t8_dtri_compute_coords(t, vertex) ==
  LET ei == t.type
      h == T8_DTRI_LEN(t.level)
      c0 == <<t.x, t.y>>
      c1 == [c0 EXCEPT ![ei + 1] = @ + h]
      c2 == [c1 EXCEPT ![(1 - ei) + 1] = @ + h]
  IN  IF vertex = 0 THEN c0
      ELSE IF vertex = 2 THEN c2
      ELSE c1

\* mutant of t8_dtri_child: the child's type is looked up by the Morton child
\* id instead of the Bey number
t8_dtri_child_type_by_childid(t, childid) ==
  LET Bey_cid == Tab(t8_dtri_index_to_bey_number, t.type, childid)
      vertex == t8_dtri_beyid_to_vertex[Bey_cid + 1]
      t_coordinates == t8_dtri_compute_coords(t, vertex)
  IN  Elem(t.level + 1,
           Tab(t8_dtri_type_of_child, t.type, childid),
           IF Bey_cid = 0 THEN t.x ELSE (t.x + t_coordinates[1]) \div 2,
           IF Bey_cid = 0 THEN t.y ELSE (t.y + t_coordinates[2]) \div 2)

t8_dtri_child(t, childid) ==
  LET Bey_cid == Tab(t8_dtri_index_to_bey_number, t.type, childid)
      vertex == t8_dtri_beyid_to_vertex[Bey_cid + 1]
      t_coordinates == t8_dtri_compute_coords(t, vertex)
  IN  Elem(t.level + 1,
           Tab(t8_dtri_type_of_child, t.type, Bey_cid),
           IF Bey_cid = 0 THEN t.x ELSE (t.x + t_coordinates[1]) \div 2,
           IF Bey_cid = 0 THEN t.y ELSE (t.y + t_coordinates[2]) \div 2)

\* mutant of t8_dtri_child_id: the cube id is taken one level too high
t8_dtri_child_id_parent_level(t) ==
  Tab(t8_dtri_type_cid_to_Iloc, t.type, compute_cubeid(t, t.level - 1))

t8_dtri_child_id(t) ==
  Tab(t8_dtri_type_cid_to_Iloc, t.type, compute_cubeid(t, t.level))

\* the loop of t8_dtri_linear_id: for (i = level; i > 0; i--)
RECURSIVE linear_id_loop(_, _, _, _, _)
linear_id_loop(t, i, id, exponent, type_temp) ==
  IF i > 0
    THEN LET cid == compute_cubeid(t, i)
         IN  linear_id_loop(t, i - 1,
               U64Or(id, U64Shl(U64(Tab(t8_dtri_type_cid_to_Iloc, type_temp, cid)),
                                exponent)),
               exponent + T8_DTRI_DIM,
               Tab(t8_dtri_cid_type_to_parenttype, cid, type_temp))
    ELSE id

\* mutant of t8_dtri_linear_id: type_temp keeps its initialiser 0
t8_dtri_linear_id_type0(t, level) ==
  LET my_level == t.level
      exponent == IF level > my_level THEN (level - my_level) * T8_DTRI_DIM ELSE 0
  IN  linear_id_loop(t, my_level, U64(0), exponent, 0)

t8_dtri_linear_id(t, level) ==
  LET my_level == t.level
      exponent == IF level > my_level THEN (level - my_level) * T8_DTRI_DIM ELSE 0
      lvl == my_level
      type_temp == compute_type(t, lvl)
  IN  linear_id_loop(t, lvl, U64(0), exponent, type_temp)

\* the precondition asserted by t8_dtri_init_linear_id
init_linear_id_assert(id, level) ==
  U64Leq(id, U64Shl(U64(1), T8_DTRI_DIM * level))

\* the loop of t8_dtri_init_linear_id: for (i = 1; i <= level; i++)
RECURSIVE init_linear_id_loop(_, _, _, _, _)
init_linear_id_loop(id, level, i, type, t) ==
  IF i <= level
    THEN LET offset_coords == T8_DTRI_MAXLEVEL - i
             offset_index == level - i
             local_index == U64Low2(U64Shr(id, T8_DTRI_DIM * offset_index))
             cid == Tab(t8_dtri_parenttype_Iloc_to_cid, type, local_index)
             ntype == Tab(t8_dtri_parenttype_Iloc_to_type, type, local_index)
         IN  init_linear_id_loop(id, level, i + 1, ntype,
               [t EXCEPT !.x = IF cid % 2 = 1 THEN BitSet(@, 2 ^ offset_coords) ELSE @,
                         !.y = IF (cid \div 2) % 2 = 1 THEN BitSet(@, 2 ^ offset_coords)
                                                       ELSE @])
    ELSE [t EXCEPT !.type = type]

\* mutant of t8_dtri_init_linear_id: the final t->type = type is missing
t8_dtri_init_linear_id_no_type(id, level) ==
  [init_linear_id_loop(id, level, 1, 0, Elem(level, 0, 0, 0)) EXCEPT !.type = 0]

t8_dtri_init_linear_id(id, level) ==
  init_linear_id_loop(id, level, 1, 0, Elem(level, 0, 0, 0))

t8_dtri_init_root == Elem(0, 0, 0, 0)

\* mutant of t8_dtri_ancestor: a zero delta_x - delta_y gives the type 0
t8_dtri_ancestor_tie_is_type_0(t, level) ==
  LET delta_x == t.x % T8_DTRI_LEN(level)
      delta_y == t.y % T8_DTRI_LEN(level)
      diff_xy == delta_x - delta_y
  IN  Elem(level,
           IF diff_xy > 0 THEN 0 ELSE IF diff_xy < 0 THEN 1 ELSE 0,
           t.x - delta_x,
           t.y - delta_y)

t8_dtri_ancestor(t, level) ==
  LET delta_x == t.x % T8_DTRI_LEN(level)
      delta_y == t.y % T8_DTRI_LEN(level)
      diff_xy == delta_x - delta_y
  IN  Elem(level,
           IF diff_xy > 0 THEN 0 ELSE IF diff_xy < 0 THEN 1 ELSE t.type,
           t.x - delta_x,
           t.y - delta_y)

\* coordinates[0..2][0..1], as a tuple of three pairs
t8_dtri_compute_all_coords(t) ==
  LET ei == t.type
      h == T8_DTRI_LEN(t.level)
      c0 == <<t.x, t.y>>
  IN  << c0, [c0 EXCEPT ![ei + 1] = @ + h], <<t.x + h, t.y + h>> >>

\* the children c[0..3], as the tuple <<c[0], c[1], c[2], c[3]>>
t8_dtri_childrenpv(t) ==
  LET t_coordinates == t8_dtri_compute_all_coords(t)
      level == t.level + 1
  IN  [i \in 1 .. T8_DTRI_CHILDREN |->
         IF i = 1 THEN Elem(level, t.type, t.x, t.y)
         ELSE LET Bey_cid == Tab(t8_dtri_index_to_bey_number, t.type, i - 1)
                  vertex == t8_dtri_beyid_to_vertex[Bey_cid + 1]
              IN  Elem(level,
                       Tab(t8_dtri_type_of_child, t.type, Bey_cid),
                       (t.x + t_coordinates[vertex + 1][1]) \div 2,
                       (t.y + t_coordinates[vertex + 1][2]) \div 2)]

\* f is the tuple <<f[0], f[1], f[2], f[3]>>; the result is the C int (0 or 1)
t8_dtri_is_familypv(f) ==
  LET level == f[1].level
      type == f[1].type
      dir1 == type
      inc == T8_DTRI_LEN(level)
      coords0 == <<f[1].x, f[1].y>>
      coords1 == <<f[2].x, f[2].y>>
  IN  IF level = 0 \/ level # f[2].level \/ level # f[3].level \/ level # f[4].level
        THEN 0
      ELSE IF f[2].type # 0 /\ f[3].type # 1 /\ f[4].type # type
        THEN 0
      ELSE IF f[2].x # f[3].x \/ f[2].y # f[3].y
        THEN 0
      ELSE IF /\ coords1[dir1 + 1] = coords0[dir1 + 1] + inc
              /\ coords1[(1 - dir1) + 1] = coords0[(1 - dir1) + 1]
              /\ f[4].x = f[1].x + inc
              /\ f[4].y = f[1].y + inc
        THEN 1
      ELSE 0

t8_dtri_sibling(elem, sibid) == t8_dtri_child(t8_dtri_parent(elem), sibid)

\* mutant of t8_dtri_face_neighbour: the face number is returned unchanged
t8_dtri_face_neighbour_same_face(t, face) ==
  LET level == t.level
      type_old == t.type
      c0 == <<t.x, t.y>>
      coords == IF face = 0 THEN [c0 EXCEPT ![type_old + 1] = @ + T8_DTRI_LEN(level)]
                ELSE IF face = 2
                  THEN [c0 EXCEPT ![(1 - type_old) + 1] = @ - T8_DTRI_LEN(level)]
                ELSE c0
  IN  [n |-> Elem(level, 1 - type_old, coords[1], coords[2]), ret |-> face]

\* the neighbour n and the returned face number ret
t8_dtri_face_neighbour(t, face) ==
  LET level == t.level
      type_old == t.type
      type_new == 1 - type_old
      c0 == <<t.x, t.y>>
      coords == IF face = 0 THEN [c0 EXCEPT ![type_old + 1] = @ + T8_DTRI_LEN(level)]
                ELSE IF face = 2
                  THEN [c0 EXCEPT ![(1 - type_old) + 1] = @ - T8_DTRI_LEN(level)]
                ELSE c0
  IN  [n |-> Elem(level, type_new, coords[1], coords[2]), ret |-> 2 - face]

t8_dtri_nearest_common_ancestor(t1, t2) ==
  LET exclorx == BitXor(t1.x, t2.x)
      exclory == BitXor(t1.y, t2.y)
      maxclor == BitOr(exclorx, exclory)
      maxlevel == SC_LOG2_32(maxclor) + 1
      r_level == SC_MIN(T8_DTRI_MAXLEVEL - maxlevel, SC_MIN(t1.level, t2.level))
  IN  t8_dtri_ancestor(t1, r_level)

\* the C int (0 or 1)
t8_dtri_is_inside_root(t) ==
  IF /\ t.x >= 0
     /\ t.x < T8_DTRI_ROOT_LEN
     /\ t.y >= 0
     /\ t.y - t.x <= 0
     /\ (IF t.y = t.x THEN t.type = 0 ELSE TRUE)
    THEN 1
    ELSE 0

t8_dtri_linear_id_first_desc(t) == t8_dtri_linear_id(t, T8_DTRI_MAXLEVEL)

t8_dtri_linear_id_last_desc(t) ==
  LET t_id == t8_dtri_linear_id(t, t.level)
      exponent == T8_DTRI_MAXLEVEL - t.level
      id0 == U64Dec(U64Shl(U64(1), T8_DTRI_DIM * exponent))
  IN  U64Or(id0, U64Shl(t_id, exponent))

\* whether every T8_ASSERT (1 <= level && level <= t->level) of the recursion holds
RECURSIVE succ_pred_assert(_, _, _)
succ_pred_assert(t, level, increment) ==
  /\ 1 <= level
  /\ level <= t.level
  /\ \/ increment = 0
     \/ LET cid == compute_cubeid(t, level)
            type_level == compute_type(t, level)
            local_index == (Tab(t8_dtri_type_cid_to_Iloc, type_level, cid)
                            + T8_DTRI_CHILDREN + increment) % T8_DTRI_CHILDREN
        IN  local_index = 0 =>
              succ_pred_assert(t, level - 1, IF increment < 0 THEN -1 ELSE 1)

\* the record s after the call, from the record s before it
RECURSIVE t8_dtri_succ_pred_recursion(_, _, _, _)
t8_dtri_succ_pred_recursion(t, s, level, increment) ==
  IF increment = 0 THEN t8_dtri_copy(t)
  ELSE
    LET cid == compute_cubeid(t, level)
        type_level == compute_type(t, level)
        local_index == (Tab(t8_dtri_type_cid_to_Iloc, type_level, cid)
                        + T8_DTRI_CHILDREN + increment) % T8_DTRI_CHILDREN
        sign == IF increment < 0 THEN -1 ELSE 1
        s1 == IF local_index = 0
                THEN t8_dtri_succ_pred_recursion(t, s, level - 1, sign)
                ELSE s
        type_level_p1 == IF local_index = 0 THEN s1.type
                         ELSE Tab(t8_dtri_cid_type_to_parenttype, cid, type_level)
        ntype == Tab(t8_dtri_parenttype_Iloc_to_type, type_level_p1, local_index)
        ncid == Tab(t8_dtri_parenttype_Iloc_to_cid, type_level_p1, local_index)
        h == 2 ^ (T8_DTRI_MAXLEVEL - level)
    IN  Elem(level,
             ntype,
             IF ncid % 2 = 1 THEN BitSet(s1.x, h) ELSE BitClear(s1.x, h),
             IF (ncid \div 2) % 2 = 1 THEN BitSet(s1.y, h) ELSE BitClear(s1.y, h))

t8_dtri_successor(t, level) ==
  t8_dtri_succ_pred_recursion(t, t8_dtri_copy(t), level, 1)

t8_dtri_first_descendant(t) ==
  t8_dtri_init_linear_id(t8_dtri_linear_id_first_desc(t), T8_DTRI_MAXLEVEL)

t8_dtri_predecessor(t, level) ==
  t8_dtri_succ_pred_recursion(t, t8_dtri_copy(t), level, -1)

t8_dtri_last_descendant(t) ==
  t8_dtri_init_linear_id(t8_dtri_linear_id_last_desc(t), T8_DTRI_MAXLEVEL)

(***************************************************************************)
(* The kernel operations on storage: a store m holds element records at    *)
(* addresses, an operation receives the addresses of its input and of its  *)
(* output record and performs the assignments of the C function in their   *)
(* order, each read seeing the writes before it.  The result is the store  *)
(* after the call.  Input and output may be the same address.              *)
(***************************************************************************)
\* the store with the record a at address 1 and the record b at address 2
Store(a, b) == <<a, b>>

\* memcpy (dest, t, sizeof (t8_dtri_t)); with dest = t the record keeps its bytes
t8_dtri_copy_at(m, t, dest) == [m EXCEPT ![dest] = m[t]]

\* mutant of t8_dtri_parent_at: parent->level is assigned first, before h and
\* the cube-id are computed from t->level
t8_dtri_parent_at_level_first(m, t, parent) ==
  LET m0 == [m EXCEPT ![parent].level = m[t].level - 1]
      h == T8_DTRI_LEN(m0[t].level)
      cid == compute_cubeid(m0[t], m0[t].level)
      m1 == [m0 EXCEPT ![parent].type =
                         Tab(t8_dtri_cid_type_to_parenttype, cid, m0[t].type)]
      m2 == [m1 EXCEPT ![parent].x = BitClear(m1[t].x, h)]
  IN  [m2 EXCEPT ![parent].y = BitClear(m2[t].y, h)]

t8_dtri_parent_at(m, t, parent) ==
  LET h == T8_DTRI_LEN(m[t].level)
      cid == compute_cubeid(m[t], m[t].level)
      m1 == [m EXCEPT ![parent].type =
                        Tab(t8_dtri_cid_type_to_parenttype, cid, m[t].type)]
      m2 == [m1 EXCEPT ![parent].x = BitClear(m1[t].x, h)]
      m3 == [m2 EXCEPT ![parent].y = BitClear(m2[t].y, h)]
  IN  [m3 EXCEPT ![parent].level = m3[t].level - 1]

t8_dtri_child_at(m, elem, childid, child) ==
  LET Bey_cid == Tab(t8_dtri_index_to_bey_number, m[elem].type, childid)
      vertex == t8_dtri_beyid_to_vertex[Bey_cid + 1]
      t_coordinates == t8_dtri_compute_coords(m[elem], vertex)
      m1 == IF Bey_cid = 0
              THEN [m EXCEPT ![child].x = m[elem].x]
              ELSE [m EXCEPT ![child].x = (m[elem].x + t_coordinates[1]) \div 2]
      m2 == IF Bey_cid = 0
              THEN [m1 EXCEPT ![child].y = m1[elem].y]
              ELSE [m1 EXCEPT ![child].y = (m1[elem].y + t_coordinates[2]) \div 2]
      m3 == [m2 EXCEPT ![child].type =
                         Tab(t8_dtri_type_of_child, m2[elem].type, Bey_cid)]
  IN  [m3 EXCEPT ![child].level = m3[elem].level + 1]

t8_dtri_sibling_at(m, elem, sibid, sibling) ==
  t8_dtri_child_at(t8_dtri_parent_at(m, elem, sibling), sibling, sibid, sibling)

t8_dtri_ancestor_at(m, t, level, ancestor) ==
  LET delta_x == m[t].x % T8_DTRI_LEN(level)
      delta_y == m[t].y % T8_DTRI_LEN(level)
      m1 == [m EXCEPT ![ancestor].x = m[t].x - (m[t].x % T8_DTRI_LEN(level))]
      m2 == [m1 EXCEPT ![ancestor].y = m1[t].y - (m1[t].y % T8_DTRI_LEN(level))]
      diff_xy == delta_x - delta_y
      m3 == [m2 EXCEPT ![ancestor].type =
                         IF diff_xy > 0 THEN 0
                         ELSE IF diff_xy < 0 THEN 1 ELSE m2[t].type]
  IN  [m3 EXCEPT ![ancestor].level = level]

\* the store after the call; the returned face number does not touch it
t8_dtri_face_neighbour_at(m, t, face, n) ==
  LET level == m[t].level
      type_old == m[t].type
      type_new == 1 - type_old
      c0 == <<m[t].x, m[t].y>>
      coords == IF face = 0 THEN [c0 EXCEPT ![type_old + 1] = @ + T8_DTRI_LEN(level)]
                ELSE IF face = 2
                  THEN [c0 EXCEPT ![(1 - type_old) + 1] = @ - T8_DTRI_LEN(level)]
                ELSE c0
      m1 == [m EXCEPT ![n].x = coords[1]]
      m2 == [m1 EXCEPT ![n].y = coords[2]]
      m3 == [m2 EXCEPT ![n].level = level]
  IN  [m3 EXCEPT ![n].type = type_new]

RECURSIVE t8_dtri_succ_pred_recursion_at(_, _, _, _, _)
t8_dtri_succ_pred_recursion_at(m, t, s, level, increment) ==
  IF increment = 0 THEN t8_dtri_copy_at(m, t, s)
  ELSE
    LET cid == compute_cubeid(m[t], level)
        type_level == compute_type(m[t], level)
        local_index == (Tab(t8_dtri_type_cid_to_Iloc, type_level, cid)
                        + T8_DTRI_CHILDREN + increment) % T8_DTRI_CHILDREN
        sign == IF increment < 0 THEN -1 ELSE 1
        m1 == IF local_index = 0
                THEN t8_dtri_succ_pred_recursion_at(m, t, s, level - 1, sign)
                ELSE m
        type_level_p1 == IF local_index = 0 THEN m1[s].type
                         ELSE Tab(t8_dtri_cid_type_to_parenttype, cid, type_level)
        ntype == Tab(t8_dtri_parenttype_Iloc_to_type, type_level_p1, local_index)
        ncid == Tab(t8_dtri_parenttype_Iloc_to_cid, type_level_p1, local_index)
        h == 2 ^ (T8_DTRI_MAXLEVEL - level)
        m2 == [m1 EXCEPT ![s].type = ntype]
        m3 == [m2 EXCEPT ![s].level = level]
        m4 == [m3 EXCEPT ![s].x = IF ncid % 2 = 1 THEN BitSet(m3[s].x, h)
                                  ELSE BitClear(m3[s].x, h)]
    IN  [m4 EXCEPT ![s].y = IF (ncid \div 2) % 2 = 1 THEN BitSet(m4[s].y, h)
                            ELSE BitClear(m4[s].y, h)]

t8_dtri_successor_at(m, t, s, level) ==
  t8_dtri_succ_pred_recursion_at(t8_dtri_copy_at(m, t, s), t, s, level, 1)

\* t8_dtri_init_linear_id assigns every field of its one record
t8_dtri_first_descendant_at(m, t, s) ==
  LET id == t8_dtri_linear_id_first_desc(m[t])
  IN  [m EXCEPT ![s] = t8_dtri_init_linear_id(id, T8_DTRI_MAXLEVEL)]

t8_dtri_last_descendant_at(m, t, s) ==
  LET id == t8_dtri_linear_id_last_desc(m[t])
  IN  [m EXCEPT ![s] = t8_dtri_init_linear_id(id, T8_DTRI_MAXLEVEL)]

t8_dtri_is_equal(t1, t2) ==
  IF /\ t1.level = t1.level
     /\ t1.type = t2.type
     /\ t1.x = t1.x
     /\ t1.y = t1.y
    THEN 1 ELSE 0

\* mutant of t8_dtri_is_ancestor: the type of c on the diagonal is not tested
t8_dtri_is_ancestor_any_type_on_diagonal(t, c) ==
  IF t.level > c.level THEN 0
  ELSE IF t.level = c.level THEN t8_dtri_is_equal(t, c)
  ELSE
    LET exclorx == BitXor(t.x, c.x) \div (2 ^ (T8_DTRI_MAXLEVEL - t.level))
        exclory == BitXor(t.y, c.y) \div (2 ^ (T8_DTRI_MAXLEVEL - t.level))
        type_t == t.type
        n1 == IF type_t = 0 THEN c.x - t.x ELSE c.y - t.y
        n2 == IF type_t = 0 THEN c.y - t.y ELSE c.x - t.x
    IN  IF exclorx = 0 /\ exclory = 0
          THEN IF ~(\/ n1 >= T8_DTRI_LEN(t.level)
                    \/ n2 < 0
                    \/ n2 - n1 > 0)
                 THEN 1 ELSE 0
          ELSE 0

\* the C int (0 or 1)
t8_dtri_is_ancestor(t, c) ==
  IF t.level > c.level THEN 0
  ELSE IF t.level = c.level THEN t8_dtri_is_equal(t, c)
  ELSE
    LET exclorx == BitXor(t.x, c.x) \div (2 ^ (T8_DTRI_MAXLEVEL - t.level))
        exclory == BitXor(t.y, c.y) \div (2 ^ (T8_DTRI_MAXLEVEL - t.level))
        type_t == t.type
        n1 == IF type_t = 0 THEN c.x - t.x ELSE c.y - t.y
        n2 == IF type_t = 0 THEN c.y - t.y ELSE c.x - t.x
    IN  IF exclorx = 0 /\ exclory = 0
          THEN IF ~(\/ n1 >= T8_DTRI_LEN(t.level)
                    \/ n2 < 0
                    \/ n2 - n1 > 0
                    \/ (n2 = n1 /\ c.type = 1 - type_t))
                 THEN 1 ELSE 0
          ELSE 0

t8_dtri_get_level(t) == t.level

t8_dtri_ancestor_id(t, level) ==
  LET cid == compute_cubeid(t, level)
      type == compute_type(t, level)
  IN  Tab(t8_dtri_type_cid_to_Iloc, type, cid)

(***************************************************************************)
(* The default triangle scheme                                             *)
(***************************************************************************)
t8_default_tri_level(elem) == t8_dtri_get_level(elem)

t8_default_tri_get_linear_id(elem, level) == t8_dtri_linear_id(elem, level)

\* the C int -1, 0 or 1
t8_default_tri_compare(elem1, elem2) ==
  LET maxlvl == SC_MAX(t8_default_tri_level(elem1), t8_default_tri_level(elem2))
      id1 == t8_default_tri_get_linear_id(elem1, maxlvl)
      id2 == t8_default_tri_get_linear_id(elem2, maxlvl)
  IN  IF U64Less(id1, id2) THEN -1 ELSE IF id1 # id2 THEN 1 ELSE 0

t8_default_tri_is_family(fam) == t8_dtri_is_familypv(fam)

t8_default_tri_successor(elem1, level) == t8_dtri_successor(elem1, level)

(***************************************************************************)
(* The line kernel: a line is the record of its level and its anchor x, on *)
(* the grid of the prism's triangle.                                       *)
(***************************************************************************)
T8_DLINE_MAXLEVEL == T8_DTRI_MAXLEVEL

T8_DLINE_LEN(l) == 2 ^ (T8_DLINE_MAXLEVEL - l)

Line(level, x) == [level |-> level, x |-> x]

t8_dline_copy(l) == l

t8_dline_init_linear_id(level, id) == Line(level, id * T8_DLINE_LEN(level))

t8_dline_child_id(l) ==
  IF l.level = 0 THEN 0
  ELSE IF BitTest(l.x, T8_DLINE_LEN(l.level)) THEN 1 ELSE 0

t8_dline_parent(l) == Line(l.level - 1, BitClear(l.x, T8_DLINE_LEN(l.level)))

t8_dline_child(l, childid) ==
  Line(l.level + 1,
       IF childid = 0 THEN l.x ELSE BitSet(l.x, T8_DLINE_LEN(l.level + 1)))

t8_dline_successor(l, level) ==
  Line(level, (l.x - (l.x % T8_DLINE_LEN(level))) + T8_DLINE_LEN(level))

t8_dline_first_descendant(l, level) == Line(level, l.x)

t8_dline_last_descendant(l, level) ==
  Line(level, l.x + T8_DLINE_LEN(l.level) - T8_DLINE_LEN(level))

\* the coordinate of the low (vertex 0) or high (vertex 1) endpoint
t8_dline_vertex_coords(l, vertex) ==
  IF vertex = 0 THEN l.x ELSE l.x + T8_DLINE_LEN(l.level)

(***************************************************************************)
(* The prism kernel.  A prism is the record of its triangle and its line.  *)
(* t8_dprism_successor works on a store of prisms at the addresses "a1"    *)
(* and "a2"; the field ok of the store tells that no T8_ASSERT has failed. *)
(***************************************************************************)
Prism(tri, line) == [tri |-> tri, line |-> line]

PrismStore(a, b) == [a1 |-> a, a2 |-> b, ok |-> TRUE]

t8_dprism_get_level(pr) == pr.line.level

RECURSIVE t8_dprism_successor(_, _, _, _)
t8_dprism_successor(m, l, succ, level) ==
  LET tri_child_id == t8_dtri_child_id(m[l].tri)
      line_child_id == t8_dline_child_id(m[l].line)
      m0 == [m EXCEPT !.ok = @ /\ 1 <= level /\ level <= m[l].tri.level]
  IN  IF ~m0.ok THEN m0
      ELSE IF tri_child_id = 3 /\ line_child_id = 1
        THEN LET m1 == [m0 EXCEPT ![succ].tri = t8_dtri_parent(m0[l].tri)]
             IN  IF t8_dtri_child_id(m1[succ].tri) = 3
                   THEN LET m2 == [m1 EXCEPT ![succ].tri.level = level - 1]
                            m3 == [m2 EXCEPT ![succ].line.level = level - 1]
                            m4 == t8_dprism_successor(m3, succ, succ, level - 1)
                            m5 == [m4 EXCEPT ![succ].tri.level = level]
                        IN  [m5 EXCEPT ![succ].line.level = level]
                   ELSE LET m2 == [m1 EXCEPT ![succ].tri = t8_dtri_child(m1[succ].tri, 3)]
                            m3 == [m2 EXCEPT
                                     ![succ].tri = t8_dtri_successor(m2[l].tri, level),
                                     !.ok = @ /\ succ_pred_assert(m2[l].tri, level, 1)]
                            m4 == [m3 EXCEPT ![succ].line = t8_dline_parent(m3[l].line)]
                        IN  [m4 EXCEPT ![succ].line = t8_dline_child(m4[succ].line, 0)]
      ELSE IF tri_child_id = 3 /\ line_child_id = 0
        THEN LET m1 == [m0 EXCEPT ![succ].line = t8_dline_successor(m0[l].line, level)]
                 m2 == [m1 EXCEPT ![succ].tri = t8_dtri_parent(m1[l].tri)]
             IN  [m2 EXCEPT ![succ].tri = t8_dtri_child(m2[succ].tri, 0)]
      ELSE LET m1 == [m0 EXCEPT
                        ![succ].tri = t8_dtri_successor(m0[l].tri, level),
                        !.ok = @ /\ succ_pred_assert(m0[l].tri, level, 1)]
           IN  [m1 EXCEPT ![succ].line = t8_dline_copy(m1[l].line)]

T8_DPRISM_MAXLEVEL == T8_DTRI_MAXLEVEL

t8_dprism_first_descendant(l, level) ==
  Prism(t8_dtri_first_descendant(l.tri), t8_dline_first_descendant(l.line, level))

t8_dprism_last_descendant(l, level) ==
  Prism(t8_dtri_last_descendant(l.tri), t8_dline_last_descendant(l.line, level))

\* coords[0..2] after the call, from coords before it
t8_dprism_vertex_coords(pr, vertex, before) ==
  IF 0 <= vertex /\ vertex < 6
    THEN LET c == t8_dtri_compute_coords(pr.tri, vertex % 3)
         IN  <<c[1], c[2], t8_dline_vertex_coords(pr.line, 0)>>
  ELSE IF 6 <= vertex /\ vertex < 9
    THEN LET c == t8_dtri_compute_coords(pr.tri, vertex)
         IN  <<c[1], c[2], t8_dline_vertex_coords(pr.line, 1)>>
  ELSE before

(***************************************************************************)
(* The quad kernel.  A quad is the record of its Morton index (level, x,   *)
(* y) and of its surround fields: the dimension tdim of the tree it lies   *)
(* in and, as a face of a hex tree, the normal direction tnormal and the   *)
(* coordinate tcoord along it.  Every function takes the contents of its   *)
(* output record before the call and yields the contents after it.  The   *)
(* functions of the quadrant library write the Morton index only.          *)
(***************************************************************************)
P4EST_MAXLEVEL == 30

P4EST_QMAXLEVEL == P4EST_MAXLEVEL - 1

P4EST_CHILDREN == 4

P4EST_QUADRANT_LEN(l) == 2 ^ (P4EST_MAXLEVEL - l)

Quad(level, x, y, tdim, tnormal, tcoord) ==
  [level |-> level, x |-> x, y |-> y,
   tdim |-> tdim, tnormal |-> tnormal, tcoord |-> tcoord]

\* the record r with the Morton index (level, x, y)
SetMorton(r, level, x, y) == [r EXCEPT !.level = level, !.x = x, !.y = y]

p4est_quadrant_parent(q, r) ==
  SetMorton(r, q.level - 1,
            BitClear(q.x, P4EST_QUADRANT_LEN(q.level)),
            BitClear(q.y, P4EST_QUADRANT_LEN(q.level)))

p4est_quadrant_sibling(q, r, sibling_id) ==
  LET shift == P4EST_QUADRANT_LEN(q.level)
  IN  SetMorton(r, q.level,
                IF sibling_id % 2 = 1 THEN BitSet(q.x, shift) ELSE BitClear(q.x, shift),
                IF sibling_id \div 2 = 1 THEN BitSet(q.y, shift) ELSE BitClear(q.y, shift))

\* the child i of q, as p4est_quadrant_childrenpv writes it into c[i]
p4est_quadrant_childrenpv(q, i, r) ==
  LET shift == P4EST_QUADRANT_LEN(q.level + 1)
  IN  SetMorton(r, q.level + 1,
                IF i % 2 = 1 THEN BitSet(q.x, shift) ELSE q.x,
                IF i \div 2 = 1 THEN BitSet(q.y, shift) ELSE q.y)

RECURSIVE p4est_quadrant_linear_id(_, _)
p4est_quadrant_linear_id(q, level) ==
  IF level = 0 THEN 0
  ELSE P4EST_CHILDREN * p4est_quadrant_linear_id(q, level - 1)
         + (IF BitTest(q.x, P4EST_QUADRANT_LEN(level)) THEN 1 ELSE 0)
         + (IF BitTest(q.y, P4EST_QUADRANT_LEN(level)) THEN 2 ELSE 0)

\* the anchor <<x, y>> of the quadrant of the Morton id at the level
RECURSIVE MortonAnchor(_, _)
MortonAnchor(level, id) ==
  IF level = 0 THEN <<0, 0>>
  ELSE LET a == MortonAnchor(level - 1, id \div P4EST_CHILDREN)
           d == id % P4EST_CHILDREN
       IN  <<a[1] + (d % 2) * P4EST_QUADRANT_LEN(level),
             a[2] + (d \div 2) * P4EST_QUADRANT_LEN(level)>>

p4est_quadrant_set_morton(r, level, id) ==
  SetMorton(r, level, MortonAnchor(level, id)[1], MortonAnchor(level, id)[2])

p4est_quadrant_first_descendant(q, fd, level) == SetMorton(fd, level, q.x, q.y)

p4est_quadrant_last_descendant(q, ld, level) ==
  LET shift == P4EST_QUADRANT_LEN(q.level) - P4EST_QUADRANT_LEN(level)
  IN  SetMorton(ld, level, q.x + shift, q.y + shift)

p4est_nearest_common_ancestor(q1, q2, r) ==
  LET maxclor == BitOr(BitXor(q1.x, q2.x), BitXor(q1.y, q2.y))
      maxlevel == SC_LOG2_32(maxclor) + 1
      level == P4EST_MAXLEVEL - maxlevel
  IN  SetMorton(r,
                IF level < q1.level /\ level < q2.level THEN level
                ELSE IF q1.level < q2.level THEN q1.level ELSE q2.level,
                q1.x - (q1.x % (2 ^ maxlevel)),
                q1.y - (q1.y % (2 ^ maxlevel)))

t8_default_quad_surround_matches(q, r) ==
  /\ q.tdim = r.tdim
  /\ \/ q.tdim = -1
     \/ (q.tnormal = r.tnormal /\ q.tcoord = r.tcoord)

t8_default_quad_copy_surround(q, r) ==
  LET r1 == [r EXCEPT !.tdim = q.tdim]
  IN  IF q.tdim = 3
        THEN [r1 EXCEPT !.tnormal = q.tnormal, !.tcoord = q.tcoord]
        ELSE r1

t8_default_quad_copy(source, dest) ==
  t8_default_quad_copy_surround(source, source)

t8_default_quad_parent(elem, parent) ==
  t8_default_quad_copy_surround(elem, p4est_quadrant_parent(elem, parent))

t8_default_quad_sibling(elem, sibid, sibling) ==
  t8_default_quad_copy_surround(elem, p4est_quadrant_sibling(elem, sibling, sibid))

t8_default_quad_child(elem, childid, child) ==
  LET shift == P4EST_QUADRANT_LEN(elem.level + 1)
      r1 == [child EXCEPT !.x = IF childid % 2 = 1 THEN BitSet(elem.x, shift)
                                ELSE elem.x]
      r2 == [r1 EXCEPT !.y = IF (childid \div 2) % 2 = 1 THEN BitSet(elem.y, shift)
                             ELSE elem.y]
      r3 == [r2 EXCEPT !.level = elem.level + 1]
  IN  t8_default_quad_copy_surround(elem, r3)

\* the array c after the call, every entry of which held the contents before
t8_default_quad_children(elem, before) ==
  [i \in 1 .. P4EST_CHILDREN |->
     t8_default_quad_copy_surround(elem,
       p4est_quadrant_childrenpv(elem, i - 1, before))]

t8_default_quad_set_linear_id(elem, level, id) ==
  [p4est_quadrant_set_morton(elem, level, id) EXCEPT !.tdim = 2]

t8_default_quad_get_linear_id(elem, level) == p4est_quadrant_linear_id(elem, level)

t8_default_quad_first_descendant(elem, desc) ==
  p4est_quadrant_first_descendant(elem, desc, P4EST_QMAXLEVEL)

t8_default_quad_last_descendant(elem, desc) ==
  p4est_quadrant_last_descendant(elem, desc, P4EST_QMAXLEVEL)

t8_default_quad_successor(elem1, elem2, level) ==
  LET id == p4est_quadrant_linear_id(elem1, level)
  IN  t8_default_quad_copy_surround(elem1,
        p4est_quadrant_set_morton(elem2, level, id + 1))

t8_default_quad_nca(elem1, elem2, nca) ==
  t8_default_quad_copy_surround(elem1, p4est_nearest_common_ancestor(elem1, elem2, nca))

(***************************************************************************)
(* The tetrahedron kernel (the simplex code under T8_DTRI_TO_DTET): a      *)
(* tetrahedron is the record of its level, its type 0..5 and its anchor.   *)
(***************************************************************************)
T8_DTET_NUM_TYPES == 6

Tet(level, type, x, y, z) ==
  [level |-> level, type |-> type, x |-> x, y |-> y, z |-> z]

\* the C int (0 or 1)
t8_dtet_is_inside_root(t) ==
  IF /\ t.x >= 0
     /\ t.x < T8_DTRI_ROOT_LEN
     /\ t.y >= 0
     /\ t.z >= 0
     /\ t.z - t.x <= 0
     /\ t.y - t.z <= 0
     /\ (IF t.y = t.z THEN (t.type = 0 \/ 4 <= t.type) ELSE TRUE)
     /\ (IF t.x = t.z THEN t.type <= 2 ELSE TRUE)
    THEN 1
    ELSE 0

\* possible_types[i] = 0 for the types i of the set
ClearTypes(possible_types, types) ==
  [i \in 1 .. T8_DTET_NUM_TYPES |->
     IF (i - 1) \in types THEN 0 ELSE possible_types[i]]

\* the loop of t8_dtet_ancestor: for (i = 0; i < 6; i++), on the record of
\* the ancestor's type, of set_type and of whether T8_ASSERT (set_type != 1)
\* has held so far
RECURSIVE ancestor_type_loop(_, _, _)
ancestor_type_loop(possible_types, i, st) ==
  IF i < T8_DTET_NUM_TYPES
    THEN ancestor_type_loop(possible_types, i + 1,
           IF possible_types[i + 1] = 1
             THEN [type |-> i, set_type |-> 1,
                   asserts |-> st.asserts /\ st.set_type # 1]
             ELSE st)
    ELSE [st EXCEPT !.asserts = @ /\ st.set_type = 1]

\* mutant of t8_dtet_ancestor: a positive delta_x - delta_z leaves the type 5
\* possible
t8_dtet_ancestor_xz_keeps_5(t, level, before) ==
  LET delta_x == t.x % T8_DTRI_LEN(level)
      delta_y == t.y % T8_DTRI_LEN(level)
      delta_z == t.z % T8_DTRI_LEN(level)
      diff_xy == delta_x - delta_y
      diff_xz == delta_x - delta_z
      diff_yz == delta_y - delta_z
      p0 == [i \in 1 .. T8_DTET_NUM_TYPES |-> 1]
      p1 == IF diff_xy > 0 THEN ClearTypes(p0, {2, 3, 4})
            ELSE IF diff_xy < 0 THEN ClearTypes(p0, {0, 1, 5})
            ELSE IF t.type \in {0, 1, 5} THEN ClearTypes(p0, {2, 3, 4})
            ELSE ClearTypes(p0, {0, 1, 5})
      p2 == IF diff_xz > 0 THEN ClearTypes(p1, {3, 4})
            ELSE IF diff_xz < 0 THEN ClearTypes(p1, {0, 1, 2})
            ELSE IF t.type \in {0, 1, 2} THEN ClearTypes(p1, {3, 4, 5})
            ELSE ClearTypes(p1, {0, 1, 2})
      p3 == IF diff_yz > 0 THEN ClearTypes(p2, {0, 4, 5})
            ELSE IF diff_yz < 0 THEN ClearTypes(p2, {1, 2, 3})
            ELSE IF t.type \in {1, 2, 3} THEN ClearTypes(p2, {0, 4, 5})
            ELSE ClearTypes(p2, {1, 2, 3})
      st == ancestor_type_loop(p3, 0, [type |-> before.type, set_type |-> 0,
                                       asserts |-> TRUE])
  IN  [ancestor |-> Tet(level, st.type, t.x - delta_x, t.y - delta_y, t.z - delta_z),
       possible_types |-> p3,
       asserts |-> st.asserts]

\* the ancestor written over the contents before, the array possible_types
\* after the three tests, and whether the two assertions on set_type hold
t8_dtet_ancestor(t, level, before) ==
  LET delta_x == t.x % T8_DTRI_LEN(level)
      delta_y == t.y % T8_DTRI_LEN(level)
      delta_z == t.z % T8_DTRI_LEN(level)
      diff_xy == delta_x - delta_y
      diff_xz == delta_x - delta_z
      diff_yz == delta_y - delta_z
      p0 == [i \in 1 .. T8_DTET_NUM_TYPES |-> 1]
      p1 == IF diff_xy > 0 THEN ClearTypes(p0, {2, 3, 4})
            ELSE IF diff_xy < 0 THEN ClearTypes(p0, {0, 1, 5})
            ELSE IF t.type \in {0, 1, 5} THEN ClearTypes(p0, {2, 3, 4})
            ELSE ClearTypes(p0, {0, 1, 5})
      p2 == IF diff_xz > 0 THEN ClearTypes(p1, {3, 4, 5})
            ELSE IF diff_xz < 0 THEN ClearTypes(p1, {0, 1, 2})
            ELSE IF t.type \in {0, 1, 2} THEN ClearTypes(p1, {3, 4, 5})
            ELSE ClearTypes(p1, {0, 1, 2})
      p3 == IF diff_yz > 0 THEN ClearTypes(p2, {0, 4, 5})
            ELSE IF diff_yz < 0 THEN ClearTypes(p2, {1, 2, 3})
            ELSE IF t.type \in {1, 2, 3} THEN ClearTypes(p2, {0, 4, 5})
            ELSE ClearTypes(p2, {1, 2, 3})
      st == ancestor_type_loop(p3, 0, [type |-> before.type, set_type |-> 0,
                                       asserts |-> TRUE])
  IN  [ancestor |-> Tet(level, st.type, t.x - delta_x, t.y - delta_y, t.z - delta_z),
       possible_types |-> p3,
       asserts |-> st.asserts]

(***************************************************************************)
(* The scheme constructors.  A scheme is the struct of function pointers:  *)
(* each capability holds the name of the function assigned to it, "NULL",  *)
(* or what the allocation left there.                                      *)
(***************************************************************************)
\* the function pointers of t8_eclass_scheme_t that the constructors assign
Capabilities ==
  {"elem_size", "elem_maxlevel", "elem_child_eclass", "elem_level", "elem_copy",
   "elem_compare", "elem_parent", "elem_sibling", "elem_child", "elem_children",
   "elem_child_id", "elem_is_family", "elem_face_neighbor", "elem_nca",
   "elem_boundary", "elem_set_linear_id", "elem_get_linear_id",
   "elem_first_desc", "elem_last_desc", "elem_successor", "elem_anchor",
   "elem_root_len", "elem_inside_root", "elem_new", "elem_destroy", "ts_destroy"}

\* what a function pointer can hold when no constructor assigned it: T8_ALLOC
\* leaves the memory as it was
Unassigned == {"NULL", "wild"}

\* T8_ALLOC_ZERO (t8_eclass_scheme_t, 1)
T8_ALLOC_ZERO == [c \in Capabilities |-> "NULL"]

\* T8_ALLOC (t8_eclass_scheme_t, 1), every pointer holding the value before
T8_ALLOC(before) == [c \in Capabilities |-> before]

\* the struct after the assignments of a constructor
Assign(struct, eclass, assignments) ==
  [eclass |-> eclass,
   fn |-> [c \in Capabilities |->
             IF c \in DOMAIN assignments THEN assignments[c] ELSE struct[c]]]

t8_default_scheme_new_tri ==
  Assign(T8_ALLOC_ZERO, "T8_ECLASS_TRIANGLE",
    [elem_size |-> "t8_default_tri_size",
     elem_maxlevel |-> "t8_default_tri_maxlevel",
     elem_level |-> "t8_default_tri_level",
     elem_copy |-> "t8_default_tri_copy",
     elem_compare |-> "t8_default_tri_compare",
     elem_parent |-> "t8_default_tri_parent",
     elem_sibling |-> "t8_default_tri_sibling",
     elem_child |-> "t8_default_tri_child",
     elem_children |-> "t8_default_tri_children",
     elem_is_family |-> "t8_default_tri_is_family",
     elem_face_neighbor |-> "t8_default_tri_face_neighbor",
     elem_child_id |-> "t8_default_tri_child_id",
     elem_nca |-> "t8_default_tri_nca",
     elem_set_linear_id |-> "t8_default_tri_set_linear_id",
     elem_get_linear_id |-> "t8_default_tri_get_linear_id",
     elem_first_desc |-> "t8_default_tri_first_descendant",
     elem_last_desc |-> "t8_default_tri_last_descendant",
     elem_successor |-> "t8_default_tri_successor",
     elem_anchor |-> "t8_default_tri_anchor",
     elem_root_len |-> "t8_default_tri_root_len",
     elem_new |-> "t8_default_mempool_alloc",
     elem_destroy |-> "t8_default_mempool_free",
     ts_destroy |-> "t8_default_scheme_mempool_destroy"])

t8_default_scheme_new_quad(before) ==
  Assign(T8_ALLOC(before), "T8_ECLASS_QUAD",
    [elem_size |-> "t8_default_quad_size",
     elem_maxlevel |-> "t8_default_quad_maxlevel",
     elem_child_eclass |-> "t8_default_quad_child_eclass",
     elem_level |-> "t8_default_quad_level",
     elem_copy |-> "t8_default_quad_copy",
     elem_compare |-> "t8_default_quad_compare",
     elem_parent |-> "t8_default_quad_parent",
     elem_sibling |-> "t8_default_quad_sibling",
     elem_child |-> "t8_default_quad_child",
     elem_children |-> "t8_default_quad_children",
     elem_child_id |-> "t8_default_quad_child_id",
     elem_is_family |-> "t8_default_quad_is_family",
     elem_nca |-> "t8_default_quad_nca",
     elem_boundary |-> "t8_default_quad_boundary",
     elem_set_linear_id |-> "t8_default_quad_set_linear_id",
     elem_get_linear_id |-> "t8_default_quad_get_linear_id",
     elem_first_desc |-> "t8_default_quad_first_descendant",
     elem_last_desc |-> "t8_default_quad_last_descendant",
     elem_successor |-> "t8_default_quad_successor",
     elem_anchor |-> "t8_default_quad_anchor",
     elem_root_len |-> "t8_default_quad_root_len",
     elem_inside_root |-> "t8_default_quad_inside_root",
     elem_new |-> "t8_default_mempool_alloc",
     elem_destroy |-> "t8_default_mempool_free",
     ts_destroy |-> "t8_default_scheme_mempool_destroy"])

t8_default_tri_child(elem, childid) == t8_dtri_child(elem, childid)

t8_default_tri_nca(elem1, elem2) ==
  LET t1 == elem1
      t2 == elem1
  IN  t8_dtri_nearest_common_ancestor(t1, t2)

\* the preconditions asserted by t8_default_tri_set_linear_id
t8_default_tri_set_linear_id_assert(level, id) ==
  /\ 0 <= level /\ level <= T8_DTRI_MAXLEVEL
  /\ U64Less(id, U64Shl(U64(1), 2 * level))

t8_default_tri_set_linear_id(level, id) == t8_dtri_init_linear_id(id, level)

(***************************************************************************)
(* The driver: an element t under inspection and the registers of the last *)
(* kernel call: its name op, its integer argument arg, the output record   *)
(* s, the integer result ret, the uint64 argument or result lid (packed)    *)
(* and the family array fam.  The driver clears the registers a call does  *)
(* not write.                                                              *)
(* The second element u is refined only by the two-element driver.         *)
(***************************************************************************)
VARIABLES t, u, s, op, arg, ret, lid, fam, ts, prism, succ, coords, quad, qout, tet, tanc

vars == <<t, u, s, op, arg, ret, lid, fam, ts, prism, succ, coords, quad, qout,
          tet, tanc>>

\* the two deepest levels, where the driver also works
DeepLevels == {T8_DTRI_MAXLEVEL - 1, T8_DTRI_MAXLEVEL}

\* the levels at which the driver asks for linear ids and successors
IdLevels == (0 .. MaxDepth) \cup DeepLevels

NoElem == t8_dtri_init_root

NoFam == [i \in 1 .. T8_DTRI_CHILDREN |-> NoElem]

\* the scheme variable before a constructor ran
NoScheme == [eclass |-> "none", fn |-> T8_ALLOC_ZERO]

\* the prism variables before a prism is built
NoPrism == Prism(NoElem, Line(0, 0))
NoQuad == Quad(0, 0, 0, 0, 0, 0)
NoTet == Tet(0, 0, 0, 0, 0)
NoTetAncestor == [ancestor |-> NoTet, possible_types |-> <<>>, asserts |-> TRUE]

\* the register lid when a call leaves it cleared
NoLid == U64Pack(U64(0))

\* the uint64 in the register lid
Lid == U64Unpack(lid)

\* the registers after a call: what it wrote, and the rest cleared
Regs(name, a, out, r, l, f) ==
  /\ op' = name
  /\ arg' = a
  /\ s' = out
  /\ ret' = r
  /\ lid' = l
  /\ fam' = f

\* a call of the triangle kernel: it touches neither the scheme nor the prisms
\* nor the vertex coordinates
Call(name, a, out, r, l, f) ==
  /\ Regs(name, a, out, r, l, f)
  /\ UNCHANGED <<ts, prism, succ, coords, quad, qout, tet, tanc>>

Init ==
  /\ t = t8_dtri_init_root
  /\ u = t8_dtri_init_root
  /\ s = NoElem
  /\ op = "init_root"
  /\ arg = 0
  /\ ret = 0
  /\ lid = NoLid
  /\ fam = NoFam
  /\ ts = NoScheme
  /\ prism = NoPrism
  /\ succ = NoPrism
  /\ coords = <<0, 0, 0>>
  /\ quad = NoQuad
  /\ qout = <<>>
  /\ tet = NoTet
  /\ tanc = NoTetAncestor

\* t8_dtri_child (t, k, s)
Child(k) ==
  /\ t.level < T8_DTRI_MAXLEVEL
  /\ t.level < MaxDepth \/ t.level \in DeepLevels
  /\ Call("child", k, t8_dtri_child(t, k), 0, NoLid, NoFam)
  /\ UNCHANGED <<t, u>>

\* t8_dtri_copy (s, t) of a child just computed: the driver descends
Copy ==
  /\ op = "child"
  /\ t' = t8_dtri_copy(s)
  /\ Call("copy", 0, NoElem, 0, NoLid, NoFam)
  /\ UNCHANGED u

\* lid = t8_dtri_linear_id (t, level)
LinearId(level) ==
  /\ 0 <= level /\ level <= T8_DTRI_MAXLEVEL
  /\ Call("linear_id", level, NoElem, 0, U64Pack(t8_dtri_linear_id(t, level)), NoFam)
  /\ UNCHANGED <<t, u>>

\* t8_dtri_init_linear_id (t, n, level): the driver starts from that element
InitLinearId(n, level) ==
  /\ op = "init_root"
  /\ init_linear_id_assert(U64(n), level)
  /\ t' = t8_dtri_init_linear_id(U64(n), level)
  /\ Call("init_linear_id", level, NoElem, 0, U64Pack(U64(n)), NoFam)
  /\ UNCHANGED u

\* t8_dtri_successor (t, s, level)
Successor(level) ==
  /\ succ_pred_assert(t, level, 1)
  /\ Call("successor", level, t8_default_tri_successor(t, level), 0, NoLid, NoFam)
  /\ UNCHANGED <<t, u>>

\* t8_dtri_first_descendant (t, s)
FirstDescendant ==
  /\ Call("first_descendant", 0, t8_dtri_first_descendant(t), 0, NoLid, NoFam)
  /\ UNCHANGED <<t, u>>

\* t8_dtri_last_descendant (t, s)
LastDescendant ==
  /\ Call("last_descendant", 0, t8_dtri_last_descendant(t), 0, NoLid, NoFam)
  /\ UNCHANGED <<t, u>>

\* t8_dtri_childrenpv (t, fam); ret = t8_dtri_is_familypv (fam)
Children ==
  /\ t.level < T8_DTRI_MAXLEVEL
  /\ Call("children", 0, NoElem, t8_default_tri_is_family(t8_dtri_childrenpv(t)),
          NoLid, t8_dtri_childrenpv(t))
  /\ UNCHANGED <<t, u>>

\* ret = t8_dtri_face_neighbour (t, face, s)
FaceNeighbour(face) ==
  /\ Call("face_neighbour", face, t8_dtri_face_neighbour(t, face).n,
          t8_dtri_face_neighbour(t, face).ret, NoLid, NoFam)
  /\ UNCHANGED <<t, u>>

\* t8_dtri_parent (t, s)
Parent ==
  /\ t.level > 0
  /\ Call("parent", 0, t8_dtri_parent(t), 0, NoLid, NoFam)
  /\ UNCHANGED <<t, u>>

\* t8_dtri_sibling (t, sibid, s)
Sibling(sibid) ==
  /\ t.level > 0
  /\ Call("sibling", sibid, t8_dtri_sibling(t, sibid), 0, NoLid, NoFam)
  /\ UNCHANGED <<t, u>>

\* t8_dtri_ancestor (t, level, s)
Ancestor(level) ==
  /\ level <= t.level
  /\ Call("ancestor", level, t8_dtri_ancestor(t, level), 0, NoLid, NoFam)
  /\ UNCHANGED <<t, u>>

\* t8_dtri_nearest_common_ancestor (t, e, s) with e the level-1 element of id n
NcaWith(n) ==
  /\ Call("nca", 1, t8_dtri_nearest_common_ancestor(t, t8_dtri_init_linear_id(U64(n), 1)),
          0, U64Pack(U64(n)), NoFam)
  /\ UNCHANGED <<t, u>>

\* t8_dtri_predecessor (t, s, level)
Predecessor(level) ==
  /\ succ_pred_assert(t, level, -1)
  /\ Call("predecessor", level, t8_dtri_predecessor(t, level), 0, NoLid, NoFam)
  /\ UNCHANGED <<t, u>>

\* ret = t8_dtri_ancestor_id (t, level)
AncestorId(level) ==
  /\ level <= t.level
  /\ Call("ancestor_id", level, NoElem, t8_dtri_ancestor_id(t, level), NoLid, NoFam)
  /\ UNCHANGED <<t, u>>

Next ==
  \/ \E k \in 0 .. (T8_DTRI_CHILDREN - 1) : Child(k)
  \/ Parent
  \/ \E sibid \in 0 .. (T8_DTRI_CHILDREN - 1) : Sibling(sibid)
  \/ \E level \in IdLevels : Ancestor(level)
  \/ \E n \in 0 .. (T8_DTRI_CHILDREN - 1) : NcaWith(n)
  \/ \E level \in IdLevels : Predecessor(level)
  \/ \E level \in IdLevels : AncestorId(level)
  \/ Copy
  \/ \E level \in IdLevels : LinearId(level)
  \/ \E level \in 0 .. MaxDepth : \E n \in 0 .. (T8_DTRI_CHILDREN ^ level) :
       InitLinearId(n, level)
  \/ \E level \in DeepLevels : \E n \in 0 .. MaxDeepId : InitLinearId(n, level)
  \/ \E level \in IdLevels : Successor(level)
  \/ FirstDescendant
  \/ LastDescendant
  \/ Children
  \/ \E face \in 0 .. (T8_DTRI_FACES - 1) : FaceNeighbour(face)

Spec == Init /\ [][Next]_vars

(***************************************************************************)
(* The two-element driver: t and u are refined in place, and s receives    *)
(* the nearest common ancestor.                                            *)
(***************************************************************************)
\* t8_dtri_child (t, k, t)
RefineT(k) ==
  /\ t.level < MaxDepthPair
  /\ t' = t8_dtri_child(t, k)
  /\ Call("refine", 0, NoElem, 0, NoLid, NoFam)
  /\ UNCHANGED u

\* t8_dtri_child (u, k, u)
RefineU(k) ==
  /\ u.level < MaxDepthPair
  /\ u' = t8_dtri_child(u, k)
  /\ Call("refine", 0, NoElem, 0, NoLid, NoFam)
  /\ UNCHANGED t

\* t8_dtri_nearest_common_ancestor (t, u, s)
Nca ==
  /\ SC_LOG2_32(BitOr(BitXor(t.x, u.x), BitXor(t.y, u.y))) + 1 <= T8_DTRI_MAXLEVEL
  /\ Call("nca", 0, t8_dtri_nearest_common_ancestor(t, u), 0, NoLid, NoFam)
  /\ UNCHANGED <<t, u>>

\* ret = t8_default_tri_compare (t, u)
Compare ==
  /\ Call("compare", 0, NoElem, t8_default_tri_compare(t, u), NoLid, NoFam)
  /\ UNCHANGED <<t, u>>

\* ret = t8_dtri_is_equal (t, u)
IsEqual ==
  /\ Call("is_equal", 0, NoElem, t8_dtri_is_equal(t, u), NoLid, NoFam)
  /\ UNCHANGED <<t, u>>

\* ret = t8_dtri_is_ancestor (t, u)
IsAncestor ==
  /\ Call("is_ancestor", 0, NoElem, t8_dtri_is_ancestor(t, u), NoLid, NoFam)
  /\ UNCHANGED <<t, u>>

\* t8_default_tri_nca (t, u, s)
SchemeNca ==
  /\ SC_LOG2_32(BitOr(BitXor(t.x, t.x), BitXor(t.y, t.y))) + 1 <= T8_DTRI_MAXLEVEL
  /\ Call("scheme_nca", 0, t8_default_tri_nca(t, u), 0, NoLid, NoFam)
  /\ UNCHANGED <<t, u>>

NextPair ==
  \/ \E k \in 0 .. (T8_DTRI_CHILDREN - 1) : RefineT(k)
  \/ \E k \in 0 .. (T8_DTRI_CHILDREN - 1) : RefineU(k)
  \/ Nca
  \/ Compare
  \/ IsEqual
  \/ IsAncestor
  \/ SchemeNca

SpecPair == Init /\ [][NextPair]_vars

(***************************************************************************)
(* The in-place driver: the element t is copied into the record s, and an  *)
(* operation is called with s as its input and as its output.              *)
(***************************************************************************)
\* t8_dtri_copy (t, s); t8_dtri_parent (s, s)
ParentInPlace ==
  /\ t.level > 0
  /\ Call("parent_inplace", 0, t8_dtri_parent_at(Store(t, t), 1, 1)[1], 0, NoLid, NoFam)
  /\ UNCHANGED <<t, u>>

\* t8_dtri_copy (t, s); t8_dtri_child (s, k, s)
ChildInPlace(k) ==
  /\ t.level < T8_DTRI_MAXLEVEL
  /\ Call("child_inplace", k, t8_dtri_child_at(Store(t, t), 1, k, 1)[1], 0, NoLid, NoFam)
  /\ UNCHANGED <<t, u>>

\* t8_dtri_copy (t, s); t8_dtri_sibling (s, sibid, s)
SiblingInPlace(sibid) ==
  /\ t.level > 0
  /\ Call("sibling_inplace", sibid, t8_dtri_sibling_at(Store(t, t), 1, sibid, 1)[1],
          0, NoLid, NoFam)
  /\ UNCHANGED <<t, u>>

\* t8_dtri_copy (t, s); t8_dtri_ancestor (s, level, s)
AncestorInPlace(level) ==
  /\ level <= t.level
  /\ Call("ancestor_inplace", level, t8_dtri_ancestor_at(Store(t, t), 1, level, 1)[1],
          0, NoLid, NoFam)
  /\ UNCHANGED <<t, u>>

\* t8_dtri_copy (t, s); ret = t8_dtri_face_neighbour (s, face, s)
FaceNeighbourInPlace(face) ==
  /\ Call("face_neighbour_inplace", face,
          t8_dtri_face_neighbour_at(Store(t, t), 1, face, 1)[1],
          t8_dtri_face_neighbour(t, face).ret, NoLid, NoFam)
  /\ UNCHANGED <<t, u>>

\* t8_dtri_copy (t, s); t8_dtri_successor (s, s, level)
SuccessorInPlace(level) ==
  /\ succ_pred_assert(t, level, 1)
  /\ Call("successor_inplace", level, t8_dtri_successor_at(Store(t, t), 1, 1, level)[1],
          0, NoLid, NoFam)
  /\ UNCHANGED <<t, u>>

\* t8_dtri_copy (t, s); t8_dtri_first_descendant (s, s)
FirstDescendantInPlace ==
  /\ Call("first_descendant_inplace", 0, t8_dtri_first_descendant_at(Store(t, t), 1, 1)[1],
          0, NoLid, NoFam)
  /\ UNCHANGED <<t, u>>

\* t8_dtri_copy (t, s); t8_dtri_last_descendant (s, s)
LastDescendantInPlace ==
  /\ Call("last_descendant_inplace", 0, t8_dtri_last_descendant_at(Store(t, t), 1, 1)[1],
          0, NoLid, NoFam)
  /\ UNCHANGED <<t, u>>

NextInPlace ==
  \/ \E k \in 0 .. (T8_DTRI_CHILDREN - 1) : Child(k)
  \/ Copy
  \/ \E level \in 0 .. MaxDepth : \E n \in 0 .. (T8_DTRI_CHILDREN ^ level) :
       InitLinearId(n, level)
  \/ \E level \in DeepLevels : \E n \in 0 .. MaxDeepId : InitLinearId(n, level)
  \/ ParentInPlace
  \/ \E k \in 0 .. (T8_DTRI_CHILDREN - 1) : ChildInPlace(k)
  \/ \E sibid \in 0 .. (T8_DTRI_CHILDREN - 1) : SiblingInPlace(sibid)
  \/ \E level \in IdLevels : AncestorInPlace(level)
  \/ \E face \in 0 .. (T8_DTRI_FACES - 1) : FaceNeighbourInPlace(face)
  \/ \E level \in IdLevels : SuccessorInPlace(level)
  \/ FirstDescendantInPlace
  \/ LastDescendantInPlace

SpecInPlace == Init /\ [][NextInPlace]_vars

(***************************************************************************)
(* The scheme driver: a scheme is constructed, and the triangle scheme is  *)
(* used to refine t through its capability elem_child.                     *)
(***************************************************************************)
\* ts = t8_default_scheme_new_tri ()
SchemeNewTri ==
  /\ ts = NoScheme
  /\ ts' = t8_default_scheme_new_tri
  /\ Regs("scheme_new", 0, NoElem, 0, NoLid, NoFam)
  /\ UNCHANGED <<t, u, prism, succ, coords, quad, qout, tet, tanc>>

\* ts = t8_default_scheme_new_quad (), on memory that held the pointer before
SchemeNewQuad(before) ==
  /\ ts = NoScheme
  /\ ts' = t8_default_scheme_new_quad(before)
  /\ Regs("scheme_new", 0, NoElem, 0, NoLid, NoFam)
  /\ UNCHANGED <<t, u, prism, succ, coords, quad, qout, tet, tanc>>

\* ts->elem_child (t, k, s)
SchemeChild(k) ==
  /\ ts.fn["elem_child"] = "t8_default_tri_child"
  /\ t.level < MaxDepth
  /\ Regs("child", k, t8_default_tri_child(t, k), 0, NoLid, NoFam)
  /\ UNCHANGED <<t, u, ts, prism, succ, coords, quad, qout, tet, tanc>>

\* ts->elem_set_linear_id (t, level, n)
SchemeSetLinearId(level, n) ==
  /\ ts.fn["elem_set_linear_id"] = "t8_default_tri_set_linear_id"
  /\ t8_default_tri_set_linear_id_assert(level, U64(n))
  /\ init_linear_id_assert(U64(n), level)
  /\ t' = t8_default_tri_set_linear_id(level, U64(n))
  /\ Regs("set_linear_id", level, NoElem, 0, U64Pack(U64(n)), NoFam)
  /\ UNCHANGED <<u, ts, prism, succ, coords, quad, qout, tet, tanc>>

NextScheme ==
  \/ SchemeNewTri
  \/ \E before \in Unassigned : SchemeNewQuad(before)
  \/ \E k \in 0 .. (T8_DTRI_CHILDREN - 1) : SchemeChild(k)
  \/ Copy
  \/ \E level \in 0 .. MaxDepth : \E n \in 0 .. (T8_DTRI_CHILDREN ^ level + 1) :
       InitLinearId(n, level)
  \/ \E level \in 0 .. MaxDepth : \E n \in 0 .. (T8_DTRI_CHILDREN ^ level + 1) :
       SchemeSetLinearId(level, n)

SpecScheme == Init /\ [][NextScheme]_vars

(***************************************************************************)
(* The prism driver: a prism is built from the linear ids of its factors,  *)
(* then its successor or the coordinates of a vertex are computed.         *)
(***************************************************************************)
\* contents the output prism may hold before t8_dprism_successor writes it
StalePrisms ==
  {NoPrism,
   Prism(Elem(T8_DTRI_MAXLEVEL, 1, T8_DTRI_ROOT_LEN - 1, T8_DTRI_ROOT_LEN - 1),
         Line(T8_DLINE_MAXLEVEL, T8_DTRI_ROOT_LEN - 1))}

\* t8_dtri_init_linear_id (&prism.tri, tid, level);
\* t8_dline_init_linear_id (&prism.line, level, lineid)
PrismNew(level, tid, lineid) ==
  /\ op = "init_root"
  /\ prism' = Prism(t8_dtri_init_linear_id(U64(tid), level),
                    t8_dline_init_linear_id(level, lineid))
  /\ Regs("prism_new", level, NoElem, 0, NoLid, NoFam)
  /\ UNCHANGED <<t, u, ts, succ, coords, quad, qout, tet, tanc>>

\* t8_dprism_successor (&prism, &succ, level) into the separate prism succ,
\* which held the contents stale
PrismSuccessor(level, stale) ==
  /\ op = "prism_new"
  /\ t8_dprism_successor(PrismStore(prism, stale), "a1", "a2", level).ok
  /\ succ' = t8_dprism_successor(PrismStore(prism, stale), "a1", "a2", level).a2
  /\ Regs("prism_successor", level, NoElem, 0, NoLid, NoFam)
  /\ UNCHANGED <<t, u, ts, prism, coords, quad, qout, tet, tanc>>

\* t8_dprism_copy (&prism, &succ); t8_dprism_successor (&succ, &succ, level)
PrismSuccessorInPlace(level) ==
  /\ op = "prism_new"
  /\ t8_dprism_successor(PrismStore(prism, prism), "a1", "a1", level).ok
  /\ succ' = t8_dprism_successor(PrismStore(prism, prism), "a1", "a1", level).a1
  /\ Regs("prism_successor_inplace", level, NoElem, 0, NoLid, NoFam)
  /\ UNCHANGED <<t, u, ts, prism, coords, quad, qout, tet, tanc>>

\* t8_dprism_vertex_coords (&prism, vertex, coords)
PrismVertexCoords(vertex) ==
  /\ op = "prism_new"
  /\ coords' = t8_dprism_vertex_coords(prism, vertex, coords)
  /\ Regs("prism_vertex_coords", vertex, NoElem, 0, NoLid, NoFam)
  /\ UNCHANGED <<t, u, ts, prism, succ, quad, qout, tet, tanc>>

\* t8_dprism_first_descendant (&prism, &succ, level)
PrismFirstDescendant(level) ==
  /\ op = "prism_new"
  /\ level >= prism.line.level /\ level <= T8_DPRISM_MAXLEVEL
  /\ succ' = t8_dprism_first_descendant(prism, level)
  /\ Regs("prism_first_descendant", level, NoElem, 0, NoLid, NoFam)
  /\ UNCHANGED <<t, u, ts, prism, coords, quad, qout, tet, tanc>>

\* t8_dprism_last_descendant (&prism, &succ, level)
PrismLastDescendant(level) ==
  /\ op = "prism_new"
  /\ level >= prism.line.level /\ level <= T8_DPRISM_MAXLEVEL
  /\ succ' = t8_dprism_last_descendant(prism, level)
  /\ Regs("prism_last_descendant", level, NoElem, 0, NoLid, NoFam)
  /\ UNCHANGED <<t, u, ts, prism, coords, quad, qout, tet, tanc>>

\* the levels the descendants of a prism are asked for
PrismDescLevels == (0 .. MaxPrismLevel) \cup {T8_DPRISM_MAXLEVEL}

NextPrism ==
  \/ \E level \in 0 .. MaxPrismLevel :
       \E tid \in 0 .. (T8_DTRI_CHILDREN ^ level - 1) :
         \E lineid \in 0 .. (2 ^ level - 1) : PrismNew(level, tid, lineid)
  \/ \E stale \in StalePrisms : PrismSuccessor(t8_dprism_get_level(prism), stale)
  \/ PrismSuccessorInPlace(t8_dprism_get_level(prism))
  \/ \E vertex \in 0 .. 5 : PrismVertexCoords(vertex)
  \/ \E level \in PrismDescLevels : PrismFirstDescendant(level)
  \/ \E level \in PrismDescLevels : PrismLastDescendant(level)

SpecPrism == Init /\ [][NextPrism]_vars

(***************************************************************************)
(* The quad driver: a quad is built from a linear id, may be made the face *)
(* of a hex tree, and then one scheme operation writes its output into     *)
(* storage that held a stale quad or the input itself.                     *)
(***************************************************************************)
\* contents of a quad record no operation has written yet
StaleQuads == {NoQuad, Quad(7, 5, 3, 3, 1, 9)}

\* what the output storage of an operation on quad may hold before the call
OutputsBefore == StaleQuads \cup {quad}

QuadRegs(name, a, out) ==
  /\ qout' = out
  /\ Regs(name, a, NoElem, 0, NoLid, NoFam)
  /\ UNCHANGED <<t, u, ts, prism, succ, coords, quad, tet, tanc>>

\* t8_default_quad_set_linear_id (&quad, level, id)
QuadSetLinearId(level, id, before) ==
  /\ op = "init_root"
  /\ quad' = t8_default_quad_set_linear_id(before, level, id)
  /\ Regs("quad_new", level, NoElem, 0, NoLid, NoFam)
  /\ UNCHANGED <<t, u, ts, prism, succ, coords, qout, tet, tanc>>

\* the quad becomes the face of a hex tree: T8_QUAD_SET_TDIM (&quad, 3),
\* T8_QUAD_SET_TNORMAL, T8_QUAD_SET_TCOORD
QuadFaceOfHex(tnormal, tcoord) ==
  /\ op = "quad_new"
  /\ quad.tdim = 2
  /\ quad' = [quad EXCEPT !.tdim = 3, !.tnormal = tnormal, !.tcoord = tcoord]
  /\ Regs("quad_new", arg, NoElem, 0, NoLid, NoFam)
  /\ UNCHANGED <<t, u, ts, prism, succ, coords, qout, tet, tanc>>

QuadCopy(before) ==
  /\ op = "quad_new"
  /\ QuadRegs("quad_copy", 0, <<t8_default_quad_copy(quad, before)>>)

QuadParent(before) ==
  /\ op = "quad_new"
  /\ quad.level > 0
  /\ QuadRegs("quad_parent", 0, <<t8_default_quad_parent(quad, before)>>)

QuadSibling(sibid, before) ==
  /\ op = "quad_new"
  /\ quad.level > 0
  /\ QuadRegs("quad_sibling", sibid, <<t8_default_quad_sibling(quad, sibid, before)>>)

QuadChild(childid, before) ==
  /\ op = "quad_new"
  /\ quad.level < P4EST_QMAXLEVEL
  /\ QuadRegs("quad_child", childid, <<t8_default_quad_child(quad, childid, before)>>)

QuadChildren(before) ==
  /\ op = "quad_new"
  /\ quad.level < P4EST_QMAXLEVEL
  /\ QuadRegs("quad_children", 0, t8_default_quad_children(quad, before))

\* t8_default_quad_nca of quad and the level-1 quad of id n in the same tree
QuadNca(n, before) ==
  /\ op = "quad_new"
  /\ QuadRegs("quad_nca", n,
       <<t8_default_quad_nca(quad, p4est_quadrant_set_morton(quad, 1, n), before)>>)

QuadSuccessor(level, before) ==
  /\ op = "quad_new"
  /\ level <= quad.level
  /\ p4est_quadrant_linear_id(quad, level) + 1 < P4EST_CHILDREN ^ level
  /\ QuadRegs("quad_successor", level,
       <<t8_default_quad_successor(quad, before, level)>>)

QuadFirstDescendant(before) ==
  /\ op = "quad_new"
  /\ QuadRegs("quad_first_descendant", 0,
       <<t8_default_quad_first_descendant(quad, before)>>)

QuadLastDescendant(before) ==
  /\ op = "quad_new"
  /\ QuadRegs("quad_last_descendant", 0,
       <<t8_default_quad_last_descendant(quad, before)>>)

NextQuad ==
  \/ \E level \in 0 .. MaxQuadLevel : \E id \in 0 .. (P4EST_CHILDREN ^ level - 1) :
       \E before \in StaleQuads : QuadSetLinearId(level, id, before)
  \/ \E tnormal \in 0 .. 1 : \E tcoord \in {0, P4EST_QUADRANT_LEN(1)} :
       QuadFaceOfHex(tnormal, tcoord)
  \/ \E before \in OutputsBefore : QuadCopy(before)
  \/ \E before \in OutputsBefore : QuadParent(before)
  \/ \E sibid \in 0 .. (P4EST_CHILDREN - 1) : \E before \in OutputsBefore :
       QuadSibling(sibid, before)
  \/ \E childid \in 0 .. (P4EST_CHILDREN - 1) : \E before \in OutputsBefore :
       QuadChild(childid, before)
  \/ \E before \in OutputsBefore : QuadChildren(before)
  \/ \E n \in 0 .. (P4EST_CHILDREN - 1) : \E before \in OutputsBefore :
       QuadNca(n, before)
  \/ \E level \in 1 .. MaxQuadLevel : \E before \in OutputsBefore :
       QuadSuccessor(level, before)
  \/ \E before \in OutputsBefore : QuadFirstDescendant(before)
  \/ \E before \in OutputsBefore : QuadLastDescendant(before)

SpecQuad == Init /\ [][NextQuad]_vars

(***************************************************************************)
(* The tetrahedron driver: a tetrahedron inside the root is given by its   *)
(* level, type and anchor, then its ancestor at a level is computed.       *)
(***************************************************************************)
\* tet = {level, type, i * h, j * h, k * h} with h = T8_DTRI_LEN (level)
TetNew(level, type, i, j, k) ==
  /\ op = "init_root"
  /\ t8_dtet_is_inside_root(Tet(level, type, i * T8_DTRI_LEN(level),
                                j * T8_DTRI_LEN(level), k * T8_DTRI_LEN(level))) = 1
  /\ tet' = Tet(level, type, i * T8_DTRI_LEN(level),
                j * T8_DTRI_LEN(level), k * T8_DTRI_LEN(level))
  /\ Regs("tet_new", level, NoElem, 0, NoLid, NoFam)
  /\ UNCHANGED <<t, u, ts, prism, succ, coords, quad, qout, tanc>>

\* t8_dtet_ancestor (&tet, level, &ancestor), the ancestor in storage of its own
TetAncestor(level) ==
  /\ op = "tet_new"
  /\ level <= tet.level
  /\ tanc' = t8_dtet_ancestor(tet, level, NoTet)
  /\ Regs("tet_ancestor", level, NoElem, 0, NoLid, NoFam)
  /\ UNCHANGED <<t, u, ts, prism, succ, coords, quad, qout, tet>>

\* t8_dtet_ancestor (&tet, level, &tet)
TetAncestorInPlace(level) ==
  /\ op = "tet_new"
  /\ level <= tet.level
  /\ tanc' = t8_dtet_ancestor(tet, level, tet)
  /\ Regs("tet_ancestor_inplace", level, NoElem, 0, NoLid, NoFam)
  /\ UNCHANGED <<t, u, ts, prism, succ, coords, quad, qout, tet>>

NextTet ==
  \/ \E level \in 0 .. MaxTetLevel : \E type \in 0 .. (T8_DTET_NUM_TYPES - 1) :
       \E i, j, k \in 0 .. (2 ^ level - 1) : TetNew(level, type, i, j, k)
  \/ \E level \in 0 .. MaxTetLevel : TetAncestor(level)
  \/ \E level \in 0 .. MaxTetLevel : TetAncestorInPlace(level)

SpecTet == Init /\ [][NextTet]_vars

(***************************************************************************)
(* Reference notions the properties are stated with                        *)
(***************************************************************************)
\* the ancestor of e at level l, by repeated t8_dtri_parent
RECURSIVE AncestorByParent(_, _)
AncestorByParent(e, l) ==
  IF e.level <= l THEN e ELSE AncestorByParent(t8_dtri_parent(e), l)

\* a is e or an ancestor of e
IsAncestorByParent(a, e) ==
  a.level <= e.level /\ AncestorByParent(e, a.level) = a

\* e is the last child of the last child ... of the root
RECURSIVE AllLastChildren(_)
AllLastChildren(e) ==
  \/ e.level = 0
  \/ /\ t8_dtri_child_id(e) = T8_DTRI_CHILDREN - 1
     /\ AllLastChildren(t8_dtri_parent(e))

\* e, cut to level l, is the last element of the uniform level-l refinement
IsLastAt(e, l) == AllLastChildren(AncestorByParent(e, l))

\* CHILDREN^l as a uint64
NumElements(l) == U64Shl(U64(1), T8_DTRI_DIM * l)

\* e and its children: the descendants of e the interval property is tried on
NearDescendants(e) ==
  {e} \cup (IF e.level < T8_DTRI_MAXLEVEL
              THEN {t8_dtri_child(e, k) : k \in 0 .. (T8_DTRI_CHILDREN - 1)}
              ELSE {})

\* the permutations of 1..4
Perms ==
  {p \in [1 .. T8_DTRI_CHILDREN -> 1 .. T8_DTRI_CHILDREN] :
     \A i, j \in 1 .. T8_DTRI_CHILDREN : i # j => p[i] # p[j]}

\* the records that differ from e in exactly one field
Corruptions(e) ==
  LET h == T8_DTRI_LEN(e.level)
  IN  {[e EXCEPT !.level = @ + 1], [e EXCEPT !.level = @ - 1],
       [e EXCEPT !.type = 1 - @],
       [e EXCEPT !.x = @ + h], [e EXCEPT !.x = @ + 2 * h],
       [e EXCEPT !.y = @ + h], [e EXCEPT !.y = @ + 2 * h]}

(***************************************************************************)
(* Properties                                                              *)
(***************************************************************************)
\* C1: the parent of a child is the element itself: after s = child(t, k),
\* parent(s) has the level, type, x and y of t.
C1_ParentChildRoundTrip ==
  op = "child" => t8_dtri_parent(s) = t

C1_Witness ==
  /\ op = "child"
  /\ arg = 2
  /\ t.level = 2
  /\ s.type # t.type
  /\ t8_dtri_parent(s) = t

\* C2: the child id of the k-th child is k: after s = child(t, k),
\* child_id(s) = k.
C2_ChildIdConsistency ==
  op = "child" => t8_dtri_child_id(s) = arg

C2_Witness ==
  /\ op = "child"
  /\ arg = 1
  /\ t.type = 1
  /\ t.level = 2
  /\ t8_dtri_child_id(s) = 1

\* C3: building an element from its own linear id reproduces it: after
\* lid = linear_id(t, t.level), init_linear_id(lid, t.level) is t; and the
\* element built from id 5 at level 2 has linear id 5 at level 2.
C3_LinearIdRoundTrip ==
  /\ (op = "linear_id" /\ arg = t.level) => t8_dtri_init_linear_id(Lid, arg) = t
  /\ (op = "init_linear_id" /\ arg = 2 /\ Lid = U64(5)) =>
       t8_dtri_linear_id(t, 2) = U64(5)

C3_Witness ==
  /\ op = "linear_id"
  /\ arg = t.level
  /\ t.level = 3
  /\ t.type = 1
  /\ Lid = U64(38)
  /\ t8_dtri_init_linear_id(Lid, arg) = t

\* C4: the linear id is a bijection between [0, CHILDREN^l) and the level-l
\* elements: the element built from id at level l has linear id id at level l.
C4_LinearIdBijective ==
  (op = "init_linear_id" /\ U64Less(Lid, NumElements(arg))) =>
    t8_dtri_linear_id(t, arg) = Lid

C4_Witness ==
  /\ op = "init_linear_id"
  /\ arg = 3
  /\ Lid = U64(27)
  /\ t.type = 1
  /\ t8_dtri_linear_id(t, arg) = Lid

\* C5: the children in child-id order increase strictly in linear id: after
\* s = child(t, k) with k < CHILDREN - 1, linear_id(s, l+1) is less than
\* linear_id(child(t, k+1), l+1).
C5_MonotoneSFC ==
  (op = "child" /\ arg < T8_DTRI_CHILDREN - 1) =>
    U64Less(t8_dtri_linear_id(s, t.level + 1),
            t8_dtri_linear_id(t8_dtri_child(t, arg + 1), t.level + 1))

C5_Witness ==
  /\ op = "child"
  /\ arg = 2
  /\ t.level = 2
  /\ t.type = 1
  /\ s.type = 1
  /\ U64Less(t8_dtri_linear_id(s, 3), t8_dtri_linear_id(t8_dtri_child(t, 3), 3))

\* C6: the successor is one step along the space-filling curve: after
\* s = successor(t, l) with 1 <= l <= t.level and t not the last element of
\* level l, linear_id(s, l) = linear_id(t, l) + 1.
C6_SuccessorIsSfcStep ==
  (op = "successor" /\ ~IsLastAt(t, arg)) =>
    t8_dtri_linear_id(s, arg) = U64Inc(t8_dtri_linear_id(t, arg))

\* C7: every descendant d of t lies between the first and the last
\* descendant of t in the level-MAXLEVEL order: after s = last_descendant(t),
\* linear_id(first_descendant(t)) <= linear_id(d) <= linear_id(s).
C7_DescendantInterval ==
  op = "last_descendant" =>
    \A d \in NearDescendants(t) :
      /\ U64Leq(t8_dtri_linear_id(t8_dtri_first_descendant(t), T8_DTRI_MAXLEVEL),
                t8_dtri_linear_id(d, T8_DTRI_MAXLEVEL))
      /\ U64Leq(t8_dtri_linear_id(d, T8_DTRI_MAXLEVEL),
                t8_dtri_linear_id(s, T8_DTRI_MAXLEVEL))

\* C8: the nearest common ancestor is the deepest common ancestor: after
\* s = nca(t, u), s is an ancestor of t and of u, and no child of s is an
\* ancestor of both.
C8_NcaIsDeepestCommonAncestor ==
  op = "nca" =>
    /\ IsAncestorByParent(s, t)
    /\ IsAncestorByParent(s, u)
    /\ s.level < T8_DTRI_MAXLEVEL =>
         \A k \in 0 .. (T8_DTRI_CHILDREN - 1) :
           ~(/\ IsAncestorByParent(t8_dtri_child(s, k), t)
             /\ IsAncestorByParent(t8_dtri_child(s, k), u))

\* C9: the children of t in child-id order are recognised as a family, and
\* neither a reordering of them nor the family with one field of one element
\* changed is.
C9_FamilyRecognition ==
  op = "children" =>
    /\ ret = 1
    /\ \A p \in Perms :
         [i \in 1 .. T8_DTRI_CHILDREN |-> fam[p[i]]] # fam =>
           t8_default_tri_is_family([i \in 1 .. T8_DTRI_CHILDREN |-> fam[p[i]]]) = 0
    /\ \A i \in 1 .. T8_DTRI_CHILDREN : \A c \in Corruptions(fam[i]) :
         t8_default_tri_is_family([fam EXCEPT ![i] = c]) = 0

\* C10: the face neighbour relation is an involution inside the root: after
\* (s, f') = face_neighbour(t, f) with t and s inside the root,
\* face_neighbour(s, f') is (t, f).
C10_FaceInvolution ==
  (/\ op = "face_neighbour"
   /\ t8_dtri_is_inside_root(t) = 1
   /\ t8_dtri_is_inside_root(s) = 1) =>
    /\ t8_dtri_face_neighbour(s, ret).n = t
    /\ t8_dtri_face_neighbour(s, ret).ret = arg

C10_Witness ==
  /\ op = "face_neighbour"
  /\ arg = 2
  /\ t.level = 3
  /\ t.type = 1
  /\ t8_dtri_is_inside_root(t) = 1
  /\ t8_dtri_is_inside_root(s) = 1
  /\ s.x = t.x - T8_DTRI_LEN(3)
  /\ t8_dtri_face_neighbour(s, ret).n = t

\* C11: the operations that do not cross the boundary keep the element inside
\* the root: for t inside the root, the output of parent, child, sibling,
\* ancestor, nearest_common_ancestor, first_descendant and last_descendant is
\* inside the root, so is the element init_linear_id builds from an id below
\* CHILDREN^level, and so is successor(t, l) when t is not last at level l.
C11_InsideRootPreserved ==
  t8_dtri_is_inside_root(t) = 1 =>
    /\ op \in {"child", "parent", "sibling", "ancestor", "nca",
               "first_descendant", "last_descendant"}
         => t8_dtri_is_inside_root(s) = 1
    /\ op = "init_linear_id" /\ U64Less(Lid, NumElements(arg))
         => t8_dtri_is_inside_root(t) = 1
    /\ op = "successor" /\ ~IsLastAt(t, arg)
         => t8_dtri_is_inside_root(s) = 1

\* the elements of the levels 0 and 1, third operands of the order laws
CoarseElements ==
  {t8_dtri_init_root}
    \cup {t8_dtri_init_linear_id(U64(n), 1) : n \in 0 .. (T8_DTRI_CHILDREN - 1)}

\* C12: compare is a total order on the elements of the triangle class, also
\* across levels: compare(t, u) is 0 only when t and u are the same element,
\* compare(t, u) = -compare(u, t), and it is transitive.
C12_CompareTotalOrder ==
  op = "compare" =>
    /\ ret = 0 => t = u
    /\ ret = 0 - t8_default_tri_compare(u, t)
    /\ \A e \in CoarseElements :
         ret <= 0 /\ t8_default_tri_compare(u, e) <= 0
           => t8_default_tri_compare(t, e) <= 0

\* contents an output record may hold before a call writes it
Stale == {t8_dtri_init_root,
          Elem(T8_DTRI_MAXLEVEL, 1, T8_DTRI_ROOT_LEN - 1, T8_DTRI_ROOT_LEN - 1)}

\* C13: an operation called with its output record being its input record
\* writes the element it writes into a separate output record, whatever that
\* record held before: after the in-place call the record s holds the result
\* of the call from t into the separate record at address 2.
C13_AliasingSafe ==
  \A stale \in Stale :
    /\ op = "parent_inplace" => s = t8_dtri_parent_at(Store(t, stale), 1, 2)[2]
    /\ op = "child_inplace" => s = t8_dtri_child_at(Store(t, stale), 1, arg, 2)[2]
    /\ op = "sibling_inplace" => s = t8_dtri_sibling_at(Store(t, stale), 1, arg, 2)[2]
    /\ op = "ancestor_inplace" => s = t8_dtri_ancestor_at(Store(t, stale), 1, arg, 2)[2]
    /\ op = "face_neighbour_inplace"
         => s = t8_dtri_face_neighbour_at(Store(t, stale), 1, arg, 2)[2]
    /\ op = "successor_inplace"
         => s = t8_dtri_successor_at(Store(t, stale), 1, 2, arg)[2]
    /\ op = "first_descendant_inplace"
         => s = t8_dtri_first_descendant_at(Store(t, stale), 1, 2)[2]
    /\ op = "last_descendant_inplace"
         => s = t8_dtri_last_descendant_at(Store(t, stale), 1, 2)[2]

\* an in-place parent of a type-1 element of level 2 whose parent has type 0
C13_Witness ==
  /\ op = "parent_inplace"
  /\ t.level = 2
  /\ t.type = 1
  /\ s.type = 0
  /\ s.level = 1

\* C14: a scheme returned by a constructor has an implementation behind every
\* capability of the scheme interface: no function pointer is null or holds
\* what the allocation left.
C14_SchemeComplete ==
  ts # NoScheme => \A c \in Capabilities : ts.fn[c] \notin Unassigned

\* C15 as claimed (scenario Tri.S1): for the root triangle t, child(t, 0) is
\* {level 1, type 0, x 0, y 0}, child(t, 1) is {level 1, type 0, x ROOT_LEN/2,
\* y 0} and child(t, 3) is {level 1, type 1, x ROOT_LEN/2, y 0}.
C15_TriS1_AsClaimed ==
  op = "child" /\ t = t8_dtri_init_root =>
    /\ arg = 0 => s = Elem(1, 0, 0, 0)
    /\ arg = 1 => s = Elem(1, 0, T8_DTRI_ROOT_LEN \div 2, 0)
    /\ arg = 3 => s = Elem(1, 1, T8_DTRI_ROOT_LEN \div 2, 0)

\* C15 amended: for the root triangle t, child(t, 0) is {level 1, type 0, x 0,
\* y 0}, child(t, 1) is {level 1, type 0, x ROOT_LEN/2, y 0}, child(t, 2) is
\* {level 1, type 1, x ROOT_LEN/2, y 0} and child(t, 3) is {level 1, type 0,
\* x ROOT_LEN/2, y ROOT_LEN/2}.
C15_TriS1 ==
  op = "child" /\ t = t8_dtri_init_root =>
    /\ arg = 0 => s = Elem(1, 0, 0, 0)
    /\ arg = 1 => s = Elem(1, 0, T8_DTRI_ROOT_LEN \div 2, 0)
    /\ arg = 2 => s = Elem(1, 1, T8_DTRI_ROOT_LEN \div 2, 0)
    /\ arg = 3 => s = Elem(1, 0, T8_DTRI_ROOT_LEN \div 2, T8_DTRI_ROOT_LEN \div 2)

\* the third child of the root has been computed
C15_Witness ==
  /\ op = "child"
  /\ t = t8_dtri_init_root
  /\ arg = 3

\* the child index of the level-i ancestor of the prism pr in the product
\* order: tri_child_id + 4 * line_child_id
PrismDigit(pr, i) ==
  t8_dtri_child_id(AncestorByParent(pr.tri, i))
    + T8_DTRI_CHILDREN * (IF BitTest(pr.line.x, T8_DLINE_LEN(i)) THEN 1 ELSE 0)

\* the base-8 id of the prism pr, read down to the level l
RECURSIVE PrismIndex(_, _)
PrismIndex(pr, l) ==
  IF l = 0 THEN 0 ELSE 8 * PrismIndex(pr, l - 1) + PrismDigit(pr, l)

\* pr is a prism of the uniform level-l refinement
IsPrismOfLevel(pr, l) ==
  /\ pr.tri.level = l
  /\ pr.line.level = l
  /\ pr.tri.x % T8_DTRI_LEN(l) = 0
  /\ pr.tri.y % T8_DTRI_LEN(l) = 0
  /\ pr.line.x % T8_DLINE_LEN(l) = 0
  /\ t8_dtri_is_inside_root(pr.tri) = 1
  /\ pr.line.x < T8_DLINE_LEN(0)

\* C16: the prism successor is a step of the product order: for a prism of
\* level l >= 1 that is not the last one of its level, t8_dprism_successor at
\* level l, into separate storage and in place, yields the prism of level l
\* whose base-8 id is larger by exactly 1.
C16_PrismSuccessorIsSfcStep ==
  /\ op \in {"prism_successor", "prism_successor_inplace"}
  /\ arg >= 1
  /\ PrismIndex(prism, arg) < 8 ^ arg - 1
  => /\ IsPrismOfLevel(succ, arg)
     /\ PrismIndex(succ, arg) = PrismIndex(prism, arg) + 1

\* C17: for a prism and a vertex v in 0..5, t8_dprism_vertex_coords returns
\* as (x, y) the coordinates of the vertex v mod 3 of the triangle, and as z
\* the low endpoint of the line for v in 0..2 and the high endpoint of the
\* line for v in 3..5 (so that the six vertices are pairwise distinct).
C17_PrismVertexCoords ==
  op = "prism_vertex_coords" /\ arg \in 0 .. 5
  => coords = <<t8_dtri_compute_coords(prism.tri, arg % 3)[1],
                t8_dtri_compute_coords(prism.tri, arg % 3)[2],
                IF arg < 3 THEN prism.line.x
                ELSE prism.line.x + T8_DLINE_LEN(prism.line.level)>>

\* C18: the predecessor is one step backwards along the space-filling
\* curve: after s = predecessor(t, l) with 1 <= l <= t.level and the level-l
\* ancestor of t not the first element of level l, s is of level l and its
\* linear id is that of the level-l ancestor of t minus 1.
C18_PredecessorIsSfcStep ==
  (/\ op = "predecessor"
   /\ t8_dtri_linear_id(AncestorByParent(t, arg), arg) # U64(0)) =>
    /\ s.level = arg
    /\ t8_dtri_linear_id(s, arg)
         = U64Dec(t8_dtri_linear_id(AncestorByParent(t, arg), arg))

\* the anchor of the element e is a multiple of the edge length of its level
AnchorAligned(e) ==
  /\ e.x % T8_DTRI_LEN(e.level) = 0
  /\ e.y % T8_DTRI_LEN(e.level) = 0

\* C19: anchor alignment is preserved: the element written by parent, child,
\* sibling, ancestor, nearest common ancestor, init_linear_id,
\* first_descendant, last_descendant, successor or predecessor from an
\* anchor-aligned input has x and y that are multiples of
\* 2^(MAXLEVEL - level) for the level stored in it.
C19_AnchorAlignmentPreserved ==
  /\ op = "init_linear_id" => AnchorAligned(t)
  /\ (/\ op \in {"parent", "child", "sibling", "ancestor", "nca",
                 "first_descendant", "last_descendant", "successor",
                 "predecessor"}
      /\ AnchorAligned(t)) =>
       AnchorAligned(s)

\* the element reached from e by taking the last child down to MAXLEVEL
RECURSIVE LastChildDescendant(_)
LastChildDescendant(e) ==
  IF e.level >= T8_DTRI_MAXLEVEL THEN e
  ELSE LastChildDescendant(t8_dtri_child(e, T8_DTRI_CHILDREN - 1))

\* (linear_id(e, e.level) << DIM * (MAXLEVEL - e.level))
\*   | ((1 << DIM * (MAXLEVEL - e.level)) - 1)
LastDescendantId(e) ==
  U64Or(U64Shl(t8_dtri_linear_id(e, e.level),
               T8_DTRI_DIM * (T8_DTRI_MAXLEVEL - e.level)),
        U64Dec(U64Shl(U64(1), T8_DTRI_DIM * (T8_DTRI_MAXLEVEL - e.level))))

\* C20: the last descendant matches the recursive definition: after
\* s = last_descendant(t), s is the element of level MAXLEVEL whose linear id
\* is linear_id(t, t.level) followed by MAXLEVEL - t.level digits
\* CHILDREN - 1, which is the element reached from t by taking the last
\* child down to MAXLEVEL.
C20_LastDescendantRecursive ==
  op = "last_descendant" =>
    /\ s = t8_dtri_init_linear_id(LastDescendantId(t), T8_DTRI_MAXLEVEL)
    /\ s = LastChildDescendant(t)

\* C21: the type at a coarser level: for 0 <= l <= t.level, compute_type(t, l)
\* is the type of the element reached from t by t.level - l parent steps, and
\* ret = t8_dtri_ancestor_id(t, l) is the child id of that element.
C21_TypeAtCoarserLevel ==
  op = "ancestor_id" =>
    /\ compute_type(t, arg) = AncestorByParent(t, arg).type
    /\ ret = t8_dtri_child_id(AncestorByParent(t, arg))

QuadOps ==
  {"quad_copy", "quad_parent", "quad_sibling", "quad_child", "quad_children",
   "quad_nca", "quad_successor", "quad_first_descendant", "quad_last_descendant"}

\* the surround fields of the quad r are those of the quad q
SurroundCopied(q, r) ==
  /\ r.tdim = q.tdim
  /\ q.tdim = 3 => (r.tnormal = q.tnormal /\ r.tcoord = q.tcoord)

\* C22: the surround fields are copied on every assignment: after a quad
\* scheme operation that writes an output element from the input element
\* quad (copy, parent, sibling, child, children, nca, successor,
\* first_descendant, last_descendant), every output has the tree dimension of
\* quad and, when that is 3, its normal and coordinate, whatever the output
\* storage held before.
C22_QuadSurroundCopied ==
  op \in QuadOps => \A i \in DOMAIN qout : SurroundCopied(quad, qout[i])

\* C23: element equality: ret = t8_dtri_is_equal(t, u) is true exactly when
\* t and u have the same level, the same type and the same x and y.
C23_IsEqual ==
  op = "is_equal" =>
    (ret # 0 <=> (t.level = u.level /\ t.type = u.type /\ t.x = u.x /\ t.y = u.y))

\* C24: the descendants of a prism keep the factors on one level: after
\* t8_dprism_first_descendant or t8_dprism_last_descendant of a prism at a
\* level L with p.level <= L <= MAXLEVEL, the triangle and the line of the
\* written prism both have level L, so that t8_dprism_get_level is L.
C24_PrismDescendantLevels ==
  op \in {"prism_first_descendant", "prism_last_descendant"} =>
    /\ succ.tri.level = arg
    /\ succ.line.level = arg
    /\ t8_dprism_get_level(succ) = arg

\* C25: out-of-range linear ids are rejected: neither the kernel's
\* t8_dtri_init_linear_id nor the scheme's set_linear_id produces an element
\* of a level l from an id >= CHILDREN^l.
C25_OutOfRangeIdRejected ==
  op \in {"init_linear_id", "set_linear_id"} => U64Less(Lid, NumElements(arg))

\* the candidate types left in the array possible_types
TypesLeft(possible_types) ==
  {i \in 0 .. (T8_DTET_NUM_TYPES - 1) : possible_types[i + 1] = 1}

\* C26: the type of a tetrahedron's ancestor is uniquely determined: after
\* t8_dtet_ancestor of a tetrahedron inside the root at a level <= its own,
\* exactly one of the six candidate types is left, it is the type written,
\* and neither assertion on set_type fails.
C26_TetAncestorTypeUnique ==
  op \in {"tet_ancestor", "tet_ancestor_inplace"} =>
    /\ Cardinality(TypesLeft(tanc.possible_types)) = 1
    /\ TypesLeft(tanc.possible_types) = {tanc.ancestor.type}
    /\ tanc.asserts

\* a tetrahedron whose ancestor two levels up is found with delta_y equal to
\* delta_z and both nonzero, so that the tiebreak by the type decides
C26_Witness ==
  /\ op = "tet_ancestor"
  /\ tet.level = 2
  /\ arg = 0
  /\ tet.y = tet.z
  /\ tet.y # 0
  /\ tet.x > tet.y
  /\ tet.type = 4
  /\ tanc.ancestor.type = 0

\* C27: the ancestor agrees with the repeated parent: after
\* s = t8_dtri_ancestor(t, l) with 0 <= l <= t.level, s is, in level, type, x
\* and y, the element reached from t by t.level - l parent steps.
C27_AncestorIsRepeatedParent ==
  op = "ancestor" => s = AncestorByParent(t, arg)

\* an ancestor two levels up of an element of type 1 on the diagonal of the
\* ancestor's cube, where the type of t decides the type of the ancestor
C27_Witness ==
  /\ op = "ancestor"
  /\ t.level = 3
  /\ arg = 1
  /\ t.type = 1
  /\ t.x % T8_DTRI_LEN(1) = t.y % T8_DTRI_LEN(1)
  /\ t.x % T8_DTRI_LEN(1) # 0
  /\ s.type = 1
  /\ s = t8_dtri_parent(t8_dtri_parent(t))

\* C28: is_ancestor agrees with the parent relation: for t.level < u.level,
\* ret = t8_dtri_is_ancestor(t, u) is true if and only if u.level - t.level
\* parent steps from u yield t.
C28_IsAncestorIsParentRelation ==
  (op = "is_ancestor" /\ t.level < u.level) =>
    (ret # 0 <=> AncestorByParent(u, t.level) = t)

\* a type-1 element u on the diagonal of the cube of a type-0 element t one
\* level up, which is found not to be a descendant of t
C28_Witness ==
  /\ op = "is_ancestor"
  /\ t.level = 1
  /\ t.type = 0
  /\ u.level = 2
  /\ u.type = 1
  /\ u.x - t.x = T8_DTRI_LEN(2)
  /\ u.y - t.y = T8_DTRI_LEN(2)
  /\ AncestorByParent(u, 1) # t
  /\ ret = 0

\* C29: the scheme's nca is the kernel's nca of its two arguments: after
\* t8_default_tri_nca(t, u, s), s is the element that
\* t8_dtri_nearest_common_ancestor(t, u) writes, and it is the same for the
\* arguments in the other order.
C29_SchemeNcaIsKernelNca ==
  op = "scheme_nca" =>
    /\ s = t8_dtri_nearest_common_ancestor(t, u)
    /\ s = t8_default_tri_nca(u, t)

\* C30: the linear id at a coarser level: for 0 <= l < t.level,
\* t8_dtri_linear_id(t, l), and the scheme's get_linear_id(t, l), is the
\* linear id at level l of the level-l ancestor of t, hence is below
\* CHILDREN^l.
C30_LinearIdAtCoarserLevel ==
  (op = "linear_id" /\ arg < t.level) =>
    /\ Lid = t8_dtri_linear_id(AncestorByParent(t, arg), arg)
    /\ t8_default_tri_get_linear_id(t, arg) = Lid
    /\ U64Less(Lid, NumElements(arg))

====
